---- MODULE Spec2Model ----
(***************************************************************************)
(* PageGobbler capture protocol: the background service worker             *)
(* (src/background.js) and the content script driver                       *)
(* (src/content/content.js), exchanging chrome.runtime / chrome.tabs       *)
(* messages, with the page's DOM state and a millisecond clock.            *)
(***************************************************************************)
EXTENDS Integers, Sequences, FiniteSets, TLC

\* ---------------------------------------------------------------- bounds
\* start-capture requests (popup click or keyboard shortcut) per behaviour
MaxStarts == 2
\* the clock: Date.now() at the first state, its grain, and where it stops
StartNow == 1000
TickMs == 175
MaxNow == 2200
\* fixed / sticky elements of the page
NumFixed == 1

\* ------------------------------------------------------- program constants
MIN_CAPTURE_INTERVAL_MS == 550
SETTLE_DELAY_MS == 350

NULL == [null |-> TRUE]

DEFAULT_SETTINGS ==
    [format |-> "png", quality |-> 92, maxFileSizeMB |-> 3, enableOCR |-> TRUE,
     enableSections |-> TRUE, sectionMaxHeight |-> 4096,
     compressionStrategy |-> "auto"]

\* the one tab of the model (sender.tab.id / msg.tabId)
TabId == 1

\* ------------------------------------------------------ the page (inputs)
\* layout height of the document, window.innerHeight, the scroll position
\* and the inline styles the page has before the extension touches it
DocHeights == {800, 1500, 2000}
InnerHeights == {0, 1000}
InitialScrollYs == {300}
InitialScrollBehaviors == {"smooth"}
InitialOverflows == {"", "scroll"}
InitialVisibilities == {""}
Elements == 1..NumFixed

\* the pages a session is started on: every document height with the usual
\* window and no inline overflow (UsualPages), and the shortest document with
\* a window of height 0 or with inline overflow on the root element or the body
ShortestDoc == CHOOSE h \in DocHeights : \A g \in DocHeights : h <= g
InitialPages ==
    {p \in [docHeight : DocHeights, innerHeight : InnerHeights,
            htmlOverflow : InitialOverflows, bodyOverflow : InitialOverflows] :
        /\ p.innerHeight = 0 => p.htmlOverflow = "" /\ p.bodyOverflow = ""
        /\ (p.innerHeight = 0 \/ p.htmlOverflow # "" \/ p.bodyOverflow # "")
                => p.docHeight = ShortestDoc}

UsualPages ==
    {p \in InitialPages : p.innerHeight > 0 /\ p.htmlOverflow = "" /\ p.bodyOverflow = ""}

\* what the popup's settings form sends with save-settings
SavedSettings ==
    {[maxFileSizeMB |-> 1, compressionStrategy |-> "lossless", sectionMaxHeight |-> 4096,
      enableOCR |-> TRUE, enableSections |-> TRUE, quality |-> 92]}

VARIABLES
    now,                  \* Date.now()
    \* background.js
    captureState, lastCaptureTime, storedSettings, lastCapture, viewerTabs,
    startHandlers,        \* handleStartCapture invocations at an await
    viewportHandlers,     \* handleCaptureViewport invocations at an await
    completeHandlers,     \* handleCaptureComplete invocations at an await
    toBackground,         \* chrome.runtime.sendMessage, content -> background
    toTab,                \* chrome.tabs.sendMessage, background -> content
    \* the tab and its page
    tabOpen,
    injected,             \* window.__gobbleInjected
    listeners,            \* chrome.runtime.onMessage listeners the content script registered
    docHeight, innerHeight,
    windowScrollY, scrollBehavior, htmlOverflow, bodyOverflow, elVisibility,
    \* content.js
    scrollIndex, totalScrolls, pageHeight, viewportHeight, originalScrollY,
    originalScrollBehavior, settings, fixedElements,
    settleTimers,         \* pending requestAnimationFrame / setTimeout waits
    \* history
    startsIssued,         \* start-capture requests made so far
    snapCalls,            \* times of the last two captureVisibleTab calls
    initialPage,          \* the page's state before the first session
    restorePending,       \* beginCapture has run and cleanup has not
    haltedByError,        \* cleanupCapture has run since the last beginCapture
    \* viewer.js: one run of each ImageProcessor function
    stitchRun,            \* ImageProcessor.stitch
    sectionRun,           \* ImageProcessor.smartSection
    compressRun,          \* ImageProcessor.compress
    viewerRun,            \* the viewer page's pipeline
    \* the popup
    popupRun,             \* what the popup saved last and was last answered
    \* the viewer's download
    zipRun                \* ZipBuilder.createZip

bgVars == <<captureState, lastCaptureTime, storedSettings, lastCapture, viewerTabs,
            startHandlers, viewportHandlers, completeHandlers>>
pageVars == <<docHeight, innerHeight, windowScrollY, scrollBehavior, htmlOverflow,
              bodyOverflow, elVisibility>>
driverVars == <<scrollIndex, totalScrolls, pageHeight, viewportHeight, originalScrollY,
                originalScrollBehavior, settings, fixedElements>>
histVars == <<startsIssued, snapCalls, initialPage, restorePending, haltedByError>>
protocolVars == <<now, bgVars, toBackground, toTab, tabOpen, injected, listeners, pageVars,
                  driverVars, settleTimers, histVars>>
viewerVars == <<stitchRun, sectionRun, compressRun, viewerRun, popupRun, zipRun>>
vars == <<protocolVars, viewerVars>>

\* ---------------------------------------------------------------- helpers
Max(a, b) == IF a >= b THEN a ELSE b
Min(a, b) == IF a <= b THEN a ELSE b

\* Math.ceil(a / b) for a >= 0, b > 0
CeilDiv(a, b) == (a + b - 1) \div b

\* Math.ceil(pageHeight / viewportHeight) is Infinity when viewportHeight is 0
\* (pageHeight > 0 on every page here): a count no scrollIndex reaches
InfiniteCount == MaxNow
ExpectedCount(h, v) == IF v = 0 THEN InfiniteCount ELSE CeilDiv(h, v)

RemoveAt(s, i) == SubSeq(s, 1, i - 1) \o SubSeq(s, i + 1, Len(s))

\* { ...a, ...b }
Merge(a, b) ==
    [k \in DOMAIN a \cup DOMAIN b |-> IF k \in DOMAIN b THEN b[k] ELSE a[k]]

\* loadSettings(): stored.settings || {} spread over the defaults
loadSettings ==
    IF storedSettings = NULL THEN DEFAULT_SETTINGS
    ELSE Merge(DEFAULT_SETTINGS, storedSettings)

SendToTabTwice(m) == IF tabOpen /\ injected THEN Append(Append(toTab, m), m) ELSE toTab
\* chrome.tabs.sendMessage: delivered to the tab's listener when there is one
SendToTab(m) == IF tabOpen /\ injected THEN Append(toTab, m) ELSE toTab

\* window.scrollTo(0, y): the browser keeps the scroll position inside the
\* page's scroll range [0, scrollHeight - innerHeight]
MaxScrollY == Max(docHeight, innerHeight) - innerHeight
ScrollTo(y) == Max(0, Min(y, MaxScrollY))

\* the five heights beginCapture takes the maximum of: the document's layout
\* height and, with the root's scrollbar hidden, the viewport's height
MeasuredPageHeight == Max(docHeight, innerHeight)

\* ------------------------------------------------------------------- Init
ProtocolInitOn(pages) ==
    /\ now = StartNow
    /\ captureState = NULL
    /\ lastCaptureTime = 0
    /\ storedSettings = NULL
    /\ lastCapture = NULL
    /\ viewerTabs = 0
    /\ startHandlers = <<>>
    /\ viewportHandlers = <<>>
    /\ completeHandlers = <<>>
    /\ toBackground = <<>>
    /\ toTab = <<>>
    /\ tabOpen = TRUE
    /\ injected = FALSE
    /\ listeners = 0
    /\ \E p \in pages :
            /\ docHeight = p.docHeight
            /\ innerHeight = p.innerHeight
            /\ htmlOverflow = p.htmlOverflow
            /\ bodyOverflow = p.bodyOverflow
    /\ windowScrollY \in {Min(y, MaxScrollY) : y \in InitialScrollYs}
    /\ scrollBehavior \in InitialScrollBehaviors
    /\ elVisibility \in [Elements -> InitialVisibilities]
    /\ scrollIndex = 0
    /\ totalScrolls = 0
    /\ pageHeight = 0
    /\ viewportHeight = 0
    /\ originalScrollY = 0
    /\ originalScrollBehavior = ""
    /\ settings = NULL
    /\ fixedElements = <<>>
    /\ settleTimers = <<>>
    /\ startsIssued = 0
    /\ snapCalls = <<>>
    /\ initialPage = [scrollY |-> windowScrollY, scrollBehavior |-> scrollBehavior,
                      htmlOverflow |-> htmlOverflow, bodyOverflow |-> bodyOverflow,
                      visibility |-> elVisibility]
    /\ restorePending = FALSE
    /\ haltedByError = FALSE

\* the protocol on the usual pages
ProtocolInit == ProtocolInitOn(UsualPages)

\* the popup has sent no save-settings and no get-settings
PopupIdle == [before |-> NULL, saved |-> NULL, got |-> NULL]

\* the viewer page is not open: no ImageProcessor function is running
ViewerIdle ==
    /\ popupRun = PopupIdle
    /\ zipRun = NULL
    /\ stitchRun = NULL
    /\ sectionRun = NULL
    /\ compressRun = NULL
    /\ viewerRun = NULL

Init == ProtocolInit /\ ViewerIdle

\* the protocol on every page of InitialPages
InitFull == ProtocolInitOn(InitialPages) /\ ViewerIdle

\* ------------------------------------------------- background: start-capture
\* The router calls handleStartCapture(tabId); the handler runs to its first
\* await, chrome.storage.local.get inside loadSettings().
StartCapture ==
    /\ tabOpen
    /\ startsIssued < MaxStarts
    /\ startsIssued' = startsIssued + 1
    /\ startHandlers' = Append(startHandlers, [pc |-> "loadSettings", tabId |-> TabId])
    /\ UNCHANGED <<viewerVars, now, captureState, lastCaptureTime, storedSettings, lastCapture,
                   viewerTabs, viewportHandlers, completeHandlers, toBackground, toTab,
                   tabOpen, injected, listeners, pageVars, driverVars, settleTimers, snapCalls,
                   initialPage, restorePending, haltedByError>>

\* loadSettings() resolves: captureState is assigned, whatever it held, and
\* the handler awaits chrome.scripting.executeScript.
StartSettingsLoaded(i) ==
    /\ startHandlers[i].pc = "loadSettings"
    /\ captureState' = [tabId |-> startHandlers[i].tabId, settings |-> loadSettings,
                        captures |-> <<>>, status |-> "measuring", startTime |-> now]
    /\ startHandlers' = [startHandlers EXCEPT ![i] =
                            [pc |-> "inject", tabId |-> startHandlers[i].tabId,
                             settings |-> loadSettings]]
    /\ UNCHANGED <<viewerVars, now, lastCaptureTime, storedSettings, lastCapture, viewerTabs,
                   viewportHandlers, completeHandlers, toBackground, toTab, tabOpen,
                   injected, listeners, pageVars, driverVars, settleTimers, histVars>>

\* a content script that registers its listener on every execution
RunContentScriptUnguarded(gobbleInjected, registered) == registered + 1

\* the content script's body: it returns at once when window.__gobbleInjected
\* is set, and otherwise registers its one chrome.runtime.onMessage listener
RunContentScript(gobbleInjected, registered) ==
    IF gobbleInjected THEN registered ELSE registered + 1

\* executeScript settles (a failure is swallowed): the content script's body
\* runs unless window.__gobbleInjected is set; then begin-scroll-capture is sent.
StartInjected(i) ==
    /\ startHandlers[i].pc = "inject"
    /\ injected' = (injected \/ tabOpen)
    /\ listeners' = IF tabOpen THEN RunContentScript(injected, listeners) ELSE listeners
    /\ toTab' = IF tabOpen
                THEN Append(toTab, [action |-> "begin-scroll-capture",
                                    settings |-> startHandlers[i].settings])
                ELSE toTab
    /\ startHandlers' = RemoveAt(startHandlers, i)
    /\ UNCHANGED <<viewerVars, now, captureState, lastCaptureTime, storedSettings, lastCapture,
                   viewerTabs, viewportHandlers, completeHandlers, toBackground, tabOpen,
                   pageVars, driverVars, settleTimers, histVars>>

\* --------------------------------------------- background: capture-viewport
\* a handler that reports the request it cannot serve to the tab
DropCaptureViewportReporting ==
    /\ toBackground # <<>>
    /\ Head(toBackground).action = "capture-viewport"
    /\ captureState = NULL
    /\ toBackground' = Tail(toBackground)
    /\ toTab' = SendToTab([action |-> "capture-error", error |-> "no session"])
    /\ UNCHANGED <<viewerVars, now, bgVars, tabOpen, injected, listeners, pageVars, driverVars,
                   settleTimers, histVars>>

\* if (!captureState) return;
DropCaptureViewport ==
    /\ toBackground # <<>>
    /\ Head(toBackground).action = "capture-viewport"
    /\ captureState = NULL
    /\ toBackground' = Tail(toBackground)
    /\ UNCHANGED <<viewerVars, now, bgVars, toTab, tabOpen, injected, listeners, pageVars, driverVars,
                   settleTimers, histVars>>

\* elapsed < MIN_CAPTURE_INTERVAL_MS: the handler awaits the setTimeout
SleepCaptureViewport ==
    /\ toBackground # <<>>
    /\ Head(toBackground).action = "capture-viewport"
    /\ captureState # NULL
    /\ now - lastCaptureTime < MIN_CAPTURE_INTERVAL_MS
    /\ toBackground' = Tail(toBackground)
    /\ viewportHandlers' = Append(viewportHandlers,
            [pc |-> "sleep", msg |-> Head(toBackground), tabId |-> TabId,
             wakeAt |-> now + (MIN_CAPTURE_INTERVAL_MS - (now - lastCaptureTime))])
    /\ UNCHANGED <<viewerVars, now, captureState, lastCaptureTime, storedSettings, lastCapture,
                   viewerTabs, startHandlers, completeHandlers, toTab, tabOpen, injected, listeners,
                   pageVars, driverVars, settleTimers, histVars>>

\* the last two call times of chrome.tabs.captureVisibleTab
LogSnapCall == IF snapCalls = <<>> THEN <<now>> ELSE <<snapCalls[Len(snapCalls)], now>>

\* elapsed >= MIN_CAPTURE_INTERVAL_MS: lastCaptureTime is stamped and
\* captureVisibleTab is called at once; the handler awaits its result.
CallCaptureViewport ==
    /\ toBackground # <<>>
    /\ Head(toBackground).action = "capture-viewport"
    /\ captureState # NULL
    /\ now - lastCaptureTime >= MIN_CAPTURE_INTERVAL_MS
    /\ toBackground' = Tail(toBackground)
    /\ lastCaptureTime' = now
    /\ snapCalls' = LogSnapCall
    /\ viewportHandlers' = Append(viewportHandlers,
            [pc |-> "snap", msg |-> Head(toBackground), tabId |-> TabId, wakeAt |-> now])
    /\ UNCHANGED <<viewerVars, now, captureState, storedSettings, lastCapture, viewerTabs,
                   startHandlers, completeHandlers, toTab, tabOpen, injected, listeners, pageVars,
                   driverVars, settleTimers, startsIssued, initialPage, restorePending,
                   haltedByError>>

\* the setTimeout fires: lastCaptureTime is stamped and captureVisibleTab is
\* called with captureState.settings
WakeCaptureViewport(i) ==
    /\ viewportHandlers[i].pc = "sleep"
    /\ now >= viewportHandlers[i].wakeAt
    /\ captureState # NULL
    /\ lastCaptureTime' = now
    /\ snapCalls' = LogSnapCall
    /\ viewportHandlers' = [viewportHandlers EXCEPT ![i].pc = "snap"]
    /\ UNCHANGED <<viewerVars, now, captureState, storedSettings, lastCapture, viewerTabs,
                   startHandlers, completeHandlers, toBackground, toTab, tabOpen, injected, listeners,
                   pageVars, driverVars, settleTimers, startsIssued, initialPage,
                   restorePending, haltedByError>>

\* the setTimeout fires after captureState was set to null: reading
\* captureState.settings throws inside the try, and the catch reports it
WakeCaptureViewportNoSession(i) ==
    /\ viewportHandlers[i].pc = "sleep"
    /\ now >= viewportHandlers[i].wakeAt
    /\ captureState = NULL
    /\ lastCaptureTime' = now
    /\ toTab' = SendToTab([action |-> "capture-error", error |-> "TypeError"])
    /\ viewportHandlers' = RemoveAt(viewportHandlers, i)
    /\ UNCHANGED <<viewerVars, now, captureState, storedSettings, lastCapture, viewerTabs,
                   startHandlers, completeHandlers, toBackground, tabOpen, injected, listeners,
                   pageVars, driverVars, settleTimers, histVars>>

\* captureState.captures.push({dataUrl, scrollY, viewportHeight, clipHeight, index})
Capture(msg) ==
    [scrollY |-> msg.scrollY, viewportHeight |-> msg.viewportHeight,
     clipHeight |-> msg.clipHeight, index |-> msg.index]

\* captureVisibleTab resolves: the capture is pushed and next-scroll is sent
SnapshotResolves(i) ==
    /\ viewportHandlers[i].pc = "snap"
    /\ captureState # NULL
    /\ captureState' = [captureState EXCEPT
            !.captures = Append(@, Capture(viewportHandlers[i].msg))]
    /\ toTab' = SendToTab([action |-> "next-scroll"])
    /\ viewportHandlers' = RemoveAt(viewportHandlers, i)
    /\ UNCHANGED <<viewerVars, now, lastCaptureTime, storedSettings, lastCapture, viewerTabs,
                   startHandlers, completeHandlers, toBackground, tabOpen, injected, listeners,
                   pageVars, driverVars, settleTimers, histVars>>

\* captureVisibleTab resolves after captureState was set to null: the push
\* throws inside the try, and the catch reports it
SnapshotResolvesNoSession(i) ==
    /\ viewportHandlers[i].pc = "snap"
    /\ captureState = NULL
    /\ toTab' = SendToTab([action |-> "capture-error", error |-> "TypeError"])
    /\ viewportHandlers' = RemoveAt(viewportHandlers, i)
    /\ UNCHANGED <<viewerVars, now, captureState, lastCaptureTime, storedSettings, lastCapture,
                   viewerTabs, startHandlers, completeHandlers, toBackground, tabOpen,
                   injected, listeners, pageVars, driverVars, settleTimers, histVars>>

\* captureVisibleTab rejects: catch (err) sends capture-error with err.message
SnapshotRejects(i) ==
    /\ viewportHandlers[i].pc = "snap"
    /\ toTab' = SendToTab([action |-> "capture-error", error |-> "captureVisibleTab"])
    /\ viewportHandlers' = RemoveAt(viewportHandlers, i)
    /\ UNCHANGED <<viewerVars, now, captureState, lastCaptureTime, storedSettings, lastCapture,
                   viewerTabs, startHandlers, completeHandlers, toBackground, tabOpen,
                   injected, listeners, pageVars, driverVars, settleTimers, histVars>>

\* --------------------------------------------- background: capture-complete
\* if (!captureState) return;
DropCaptureComplete ==
    /\ toBackground # <<>>
    /\ Head(toBackground).action = "capture-complete"
    /\ captureState = NULL
    /\ toBackground' = Tail(toBackground)
    /\ UNCHANGED <<viewerVars, now, bgVars, toTab, tabOpen, injected, listeners, pageVars, driverVars,
                   settleTimers, histVars>>

\* status-update is sent, the result is built from captureState, and the
\* handler awaits chrome.storage.local.set
ReceiveCaptureComplete ==
    /\ toBackground # <<>>
    /\ Head(toBackground).action = "capture-complete"
    /\ captureState # NULL
    /\ toBackground' = Tail(toBackground)
    /\ toTab' = SendToTab([action |-> "status-update", status |-> "processing"])
    /\ completeHandlers' = Append(completeHandlers,
            [pc |-> "store", tabId |-> TabId,
             result |-> [captures |-> captureState.captures,
                         pageInfo |-> Head(toBackground).pageInfo,
                         settings |-> captureState.settings,
                         timestamp |-> now,
                         elapsedMs |-> now - captureState.startTime]])
    /\ UNCHANGED <<viewerVars, now, captureState, lastCaptureTime, storedSettings, lastCapture,
                   viewerTabs, startHandlers, viewportHandlers, tabOpen, injected, listeners,
                   pageVars, driverVars, settleTimers, histVars>>

\* storage.set resolves: the viewer tab is created; finally { captureState = null }
StoreResolves(i) ==
    /\ completeHandlers[i].pc = "store"
    /\ lastCapture' = completeHandlers[i].result
    /\ viewerTabs' = viewerTabs + 1
    /\ captureState' = NULL
    /\ completeHandlers' = RemoveAt(completeHandlers, i)
    /\ UNCHANGED <<viewerVars, now, lastCaptureTime, storedSettings, startHandlers, viewportHandlers,
                   toBackground, toTab, tabOpen, injected, listeners, pageVars, driverVars,
                   settleTimers, histVars>>

\* storage.set rejects: capture-error is sent; finally { captureState = null }
StoreRejects(i) ==
    /\ completeHandlers[i].pc = "store"
    /\ toTab' = SendToTab([action |-> "capture-error", error |-> "storage"])
    /\ captureState' = NULL
    /\ completeHandlers' = RemoveAt(completeHandlers, i)
    /\ UNCHANGED <<viewerVars, now, lastCaptureTime, storedSettings, lastCapture, viewerTabs,
                   startHandlers, viewportHandlers, toBackground, tabOpen, injected, listeners,
                   pageVars, driverVars, settleTimers, histVars>>

\* ------------------------------------------------------ content: the driver
\* waitForSettleThenCapture(): requestAnimationFrame is pending
WaitForSettle == Append(settleTimers, [phase |-> "frame", due |-> now])

\* detectFixedElements(): every fixed / sticky element with its inline visibility
DetectFixedElements ==
    [e \in Elements |-> [el |-> e, origVisibility |-> elVisibility[e]]]

\* applyFixedElementHiding()
ApplyFixedElementHiding ==
    [e \in Elements |->
        IF \E k \in 1..Len(fixedElements) : fixedElements[k].el = e
        THEN "hidden" ELSE elVisibility[e]]

\* restoreFixedElements(): in list order, so the last entry of an element wins
RECURSIVE RestoreFrom(_, _)
RestoreFrom(vis, k) ==
    IF k > Len(fixedElements) THEN vis
    ELSE RestoreFrom([vis EXCEPT ![fixedElements[k].el] = fixedElements[k].origVisibility],
                     k + 1)
RestoreFixedElements == RestoreFrom(elVisibility, 1)

\* 'begin-scroll-capture': beginCapture(msg.settings)
BeginCapture ==
    /\ toTab # <<>>
    /\ Head(toTab).action = "begin-scroll-capture"
    /\ toTab' = Tail(toTab)
    /\ settings' = Head(toTab).settings
    /\ originalScrollY' = windowScrollY
    /\ originalScrollBehavior' = scrollBehavior
    /\ scrollBehavior' = "auto"
    /\ htmlOverflow' = "hidden"
    /\ bodyOverflow' = "visible"
    /\ pageHeight' = MeasuredPageHeight
    /\ viewportHeight' = innerHeight
    /\ totalScrolls' = ExpectedCount(MeasuredPageHeight, innerHeight)
    /\ scrollIndex' = 0
    /\ fixedElements' = DetectFixedElements
    /\ windowScrollY' = ScrollTo(0)
    /\ settleTimers' = WaitForSettle
    /\ restorePending' = TRUE
    /\ haltedByError' = FALSE
    /\ UNCHANGED <<viewerVars, now, bgVars, toBackground, tabOpen, injected, listeners, docHeight, innerHeight,
                   elVisibility, startsIssued, snapCalls, initialPage>>

\* 'next-scroll': captureNextViewport(), scrollIndex + 1 < totalScrolls:
\* scroll to the next viewport and wait for it to settle
CaptureNextViewport ==
    /\ toTab # <<>>
    /\ Head(toTab).action = "next-scroll"
    /\ scrollIndex + 1 < totalScrolls
    /\ toTab' = Tail(toTab)
    /\ scrollIndex' = scrollIndex + 1
    /\ elVisibility' = IF scrollIndex + 1 = 1 THEN ApplyFixedElementHiding
                       ELSE elVisibility
    /\ windowScrollY' = ScrollTo((scrollIndex + 1) * viewportHeight)
    /\ settleTimers' = WaitForSettle
    /\ UNCHANGED <<viewerVars, now, bgVars, toBackground, tabOpen, injected, listeners, docHeight, innerHeight,
                   scrollBehavior, htmlOverflow, bodyOverflow, totalScrolls, pageHeight,
                   viewportHeight, originalScrollY, originalScrollBehavior, settings,
                   fixedElements, histVars>>

\* 'next-scroll': captureNextViewport(), scrollIndex + 1 >= totalScrolls:
\* finishCapture() collects the page info and sends capture-complete
FinishCapture ==
    /\ toTab # <<>>
    /\ Head(toTab).action = "next-scroll"
    /\ scrollIndex + 1 >= totalScrolls
    /\ toTab' = Tail(toTab)
    /\ scrollIndex' = scrollIndex + 1
    /\ elVisibility' = IF scrollIndex + 1 = 1 THEN ApplyFixedElementHiding
                       ELSE elVisibility
    /\ toBackground' = Append(toBackground,
            [action |-> "capture-complete", pageInfo |-> [scrollHeight |-> docHeight]])
    /\ UNCHANGED <<viewerVars, now, bgVars, tabOpen, injected, listeners, docHeight, innerHeight, windowScrollY,
                   scrollBehavior, htmlOverflow, bodyOverflow, totalScrolls, pageHeight,
                   viewportHeight, originalScrollY, originalScrollBehavior, settings,
                   fixedElements, settleTimers, histVars>>

\* 'capture-error': cleanupCapture(msg.error) -> cleanup()
CleanupCapture ==
    /\ toTab # <<>>
    /\ Head(toTab).action = "capture-error"
    /\ toTab' = Tail(toTab)
    /\ elVisibility' = RestoreFixedElements
    /\ fixedElements' = <<>>
    /\ scrollBehavior' = originalScrollBehavior
    /\ htmlOverflow' = ""
    /\ bodyOverflow' = ""
    /\ windowScrollY' = ScrollTo(originalScrollY)
    /\ restorePending' = FALSE
    /\ haltedByError' = TRUE
    /\ UNCHANGED <<viewerVars, now, bgVars, toBackground, tabOpen, injected, listeners, docHeight, innerHeight,
                   scrollIndex, totalScrolls, pageHeight, viewportHeight, originalScrollY,
                   originalScrollBehavior, settings, settleTimers, startsIssued, snapCalls,
                   initialPage>>

\* 'status-update': the listener has no handler for it
IgnoreStatusUpdate ==
    /\ toTab # <<>>
    /\ Head(toTab).action = "status-update"
    /\ toTab' = Tail(toTab)
    /\ UNCHANGED <<viewerVars, now, bgVars, toBackground, tabOpen, injected, listeners, pageVars, driverVars,
                   settleTimers, histVars>>

\* the requestAnimationFrame callback: setTimeout(..., SETTLE_DELAY_MS)
AnimationFrame(i) ==
    /\ settleTimers[i].phase = "frame"
    /\ settleTimers' = [settleTimers EXCEPT ![i] =
                            [phase |-> "timeout", due |-> now + SETTLE_DELAY_MS]]
    /\ UNCHANGED <<viewerVars, now, bgVars, toBackground, toTab, tabOpen, injected, listeners, pageVars,
                   driverVars, histVars>>

\* the clip height without the Math.min: the whole rest of the page
ClipHeightUnbounded(currentY) == pageHeight - currentY

\* Math.min(viewportHeight, pageHeight - currentY)
ClipHeight(currentY) == Min(viewportHeight, pageHeight - currentY)

\* the setTimeout callback: requestCaptureOfCurrentViewport()
RequestCaptureOfCurrentViewport(i) ==
    /\ settleTimers[i].phase = "timeout"
    /\ now >= settleTimers[i].due
    /\ settleTimers' = RemoveAt(settleTimers, i)
    /\ toBackground' = Append(toBackground,
            [action |-> "capture-viewport", scrollY |-> windowScrollY,
             viewportHeight |-> viewportHeight, clipHeight |-> ClipHeight(windowScrollY),
             index |-> scrollIndex, totalScrolls |-> totalScrolls])
    /\ UNCHANGED <<viewerVars, now, bgVars, toTab, tabOpen, injected, listeners, pageVars, driverVars, histVars>>

\* ------------------------------------------------------------ environment
\* save-settings that keeps what was stored for the keys it is not given
SaveMergedOverStored(s) == Merge(loadSettings, s)

\* const merged = { ...DEFAULT_SETTINGS, ...settings }
SaveMerged(s) == Merge(DEFAULT_SETTINGS, s)

\* 'save-settings': handleSaveSettings(msg.settings, sendResponse) writes the
\* settings, spread over the defaults, to chrome.storage.local
HandleSaveSettings(s) ==
    /\ storedSettings' = SaveMerged(s)
    /\ popupRun' = [before |-> storedSettings, saved |-> s, got |-> NULL]
    /\ UNCHANGED <<stitchRun, sectionRun, compressRun, viewerRun, zipRun, now, captureState, lastCaptureTime, lastCapture, viewerTabs,
                   startHandlers, viewportHandlers, completeHandlers, toBackground, toTab,
                   tabOpen, injected, listeners, pageVars, driverVars, settleTimers, histVars>>

\* the popup's capture button saves its six fields
SaveSettings == \E s \in SavedSettings : HandleSaveSettings(s)

\* 'get-settings': handleGetSettings(sendResponse) answers with loadSettings()
HandleGetSettings ==
    /\ popupRun' = [popupRun EXCEPT !.got = loadSettings]
    /\ UNCHANGED <<protocolVars, stitchRun, sectionRun, compressRun, viewerRun, zipRun>>

\* the tab is closed or navigates away during a session: the content script's
\* execution context, its timers and the messages on their way to it are gone
TabClosed ==
    /\ tabOpen
    /\ injected
    /\ captureState # NULL
    /\ tabOpen' = FALSE
    /\ toTab' = <<>>
    /\ settleTimers' = <<>>
    /\ listeners' = 0
    /\ UNCHANGED <<viewerVars, now, bgVars, toBackground, injected, pageVars, driverVars, histVars>>

\* the clock advances
Tick ==
    /\ now < MaxNow
    /\ now' = now + TickMs
    /\ UNCHANGED <<viewerVars, bgVars, toBackground, toTab, tabOpen, injected, listeners, pageVars, driverVars,
                   settleTimers, histVars>>

Next ==
    \/ StartCapture
    \/ \E i \in 1..Len(startHandlers) : StartSettingsLoaded(i)
    \/ \E i \in 1..Len(startHandlers) : StartInjected(i)
    \/ DropCaptureViewport
    \/ SleepCaptureViewport
    \/ CallCaptureViewport
    \/ \E i \in 1..Len(viewportHandlers) : WakeCaptureViewport(i)
    \/ \E i \in 1..Len(viewportHandlers) : WakeCaptureViewportNoSession(i)
    \/ \E i \in 1..Len(viewportHandlers) : SnapshotResolves(i)
    \/ \E i \in 1..Len(viewportHandlers) : SnapshotResolvesNoSession(i)
    \/ \E i \in 1..Len(viewportHandlers) : SnapshotRejects(i)
    \/ DropCaptureComplete
    \/ ReceiveCaptureComplete
    \/ \E i \in 1..Len(completeHandlers) : StoreResolves(i)
    \/ \E i \in 1..Len(completeHandlers) : StoreRejects(i)
    \/ BeginCapture
    \/ CaptureNextViewport
    \/ FinishCapture
    \/ CleanupCapture
    \/ IgnoreStatusUpdate
    \/ \E i \in 1..Len(settleTimers) : AnimationFrame(i)
    \/ \E i \in 1..Len(settleTimers) : RequestCaptureOfCurrentViewport(i)
    \/ TabClosed
    \/ Tick

Spec == Init /\ [][Next]_vars

\* the protocol with the settings form in use, on every page of InitialPages
NextFull == Next \/ SaveSettings

SpecFull == InitFull /\ [][NextFull]_vars

\* ------------------------------------------------------------ vocabulary
\* the capture-viewport requests on their way to the background
Requests == {k \in 1..Len(toBackground) : toBackground[k].action = "capture-viewport"}

\* handleCaptureViewport invocations between calling captureVisibleTab and its result
InFlight == {i \in 1..Len(viewportHandlers) : viewportHandlers[i].pc = "snap"}

\* nothing is running, waiting or on its way
Quiescent ==
    /\ startHandlers = <<>> /\ viewportHandlers = <<>> /\ completeHandlers = <<>>
    /\ toBackground = <<>> /\ toTab = <<>> /\ settleTimers = <<>>

\* a session was started and everything it set going has run to its end
SessionEnded == startsIssued > 0 /\ tabOpen /\ Quiescent

\* what cleanup() leaves behind
CleanupDone ==
    /\ ~restorePending
    /\ fixedElements = <<>>
    /\ htmlOverflow = "" /\ bodyOverflow = ""
    /\ scrollBehavior = originalScrollBehavior
    /\ windowScrollY = ScrollTo(originalScrollY)

\* this step appends message a to queue q
Sends(q, qNext, a) ==
    /\ Len(qNext) = Len(q) + 1
    /\ qNext[Len(qNext)].action = a

\* --------------------------------------------------------------- claims
\* C1: any two calls of captureVisibleTab by handleCaptureViewport are at
\* least MIN_CAPTURE_INTERVAL_MS apart, in every interleaving of
\* capture-viewport messages.
C1_MinCaptureInterval ==
    Len(snapCalls) = 2 => snapCalls[2] - snapCalls[1] >= MIN_CAPTURE_INTERVAL_MS

\* C2: at most one handleCaptureViewport invocation is between issuing the
\* snapshot call and receiving its result.
C2_OneSnapshotInFlight == Cardinality(InFlight) <= 1

\* C3: within a session the captures are appended in strictly increasing
\* scroll-offset order, the i-th one carrying index i.
C3_IncreasingOffsets ==
    captureState # NULL =>
        \A k \in 1..Len(captureState.captures) :
            /\ captureState.captures[k].index = k - 1
            /\ k > 1 => captureState.captures[k - 1].scrollY
                            < captureState.captures[k].scrollY

\* C4: while captureState is non-null no step replaces the session: its tabId,
\* settings and startTime stay and its captures only grow by appending.
C4_SessionNotReplaced ==
    [][(captureState # NULL /\ captureState' # NULL) =>
        /\ captureState'.tabId = captureState.tabId
        /\ captureState'.settings = captureState.settings
        /\ captureState'.startTime = captureState.startTime
        /\ Len(captureState'.captures) >= Len(captureState.captures)
        /\ SubSeq(captureState'.captures, 1, Len(captureState.captures))
                = captureState.captures]_vars

C6_CleanupAtSessionEnd == SessionEnded => CleanupDone

\* C7: once capture-error has made the driver clean up, the session makes no
\* further scroll step and sends no further capture-viewport request.
C7_HaltAfterError ==
    [][haltedByError =>
        /\ ~Sends(toBackground, toBackground', "capture-viewport")
        /\ ~(scrollIndex' = scrollIndex + 1 /\ Len(settleTimers') > Len(settleTimers))
      ]_vars

\* C8: when a snapshot failure is reported with capture-error, and when
\* handleCaptureComplete finishes, captureState is null.
C8_SessionDestroyed ==
    [][(\/ Sends(toTab, toTab', "capture-error")
        \/ Len(completeHandlers') < Len(completeHandlers))
       => captureState' = NULL]_vars

\* C9: with the driver torn down and nothing left to arrive from it, the
\* orchestrator has released captureState.
C9_ReleasedAfterTeardown ==
    (startsIssued > 0 /\ ~tabOpen /\ Quiescent) => captureState = NULL

\* C10: the fixed / sticky elements keep their own visibility during the
\* first snapshot, are hidden during every later one, and have their own
\* visibility back when the session has completed or failed.
C10_FixedElementVisibility ==
    /\ \A i \in InFlight :
          IF viewportHandlers[i].msg.index = 0
          THEN elVisibility = initialPage.visibility
          ELSE \A e \in Elements : elVisibility[e] = "hidden"
    /\ SessionEnded => elVisibility = initialPage.visibility

\* ================================================= viewer.js: ImageProcessor
\* ------------------------------------------------------------------ stitch
\* captures handed to one stitch call
MaxCaptures == 2

\* inputs of stitch: page heights in CSS px, device pixel ratios as exact
\* fractions, and what each capture's dataUrl decodes to
StitchPageHeights == {2, 3}
DevicePixelRatios ==
    {[num |-> 1, den |-> 1], [num |-> 3, den |-> 2], [num |-> 2, den |-> 1]}
ImageTable ==
    <<[naturalWidth |-> 4, decodes |-> TRUE], [naturalWidth |-> 4, decodes |-> TRUE],
      [naturalWidth |-> 6, decodes |-> TRUE], [naturalWidth |-> 0, decodes |-> FALSE]>>
DataUrls == 1..Len(ImageTable)

\* the captures a session can hand over for a page of height h: each lies
\* inside the page; index is the position in arrival order
CaptureShapes(h) ==
    {[dataUrl |-> u, scrollY |-> y, clipHeight |-> c] :
        u \in DataUrls, y \in 0..(h - 1), c \in 1..2} 
StitchInputs(h) ==
    UNION {{[k \in 1..n |->
                [dataUrl |-> f[k].dataUrl, scrollY |-> f[k].scrollY, viewportHeight |-> 2,
                 clipHeight |-> f[k].clipHeight, index |-> k - 1]] :
            f \in [1..n -> {x \in CaptureShapes(h) : x.scrollY + x.clipHeight <= h}]} :
           n \in 0..MaxCaptures}

\* the captures in reverse order
RECURSIVE Reversed(_)
Reversed(caps) ==
    IF caps = <<>> THEN <<>> ELSE Append(Reversed(Tail(caps)), Head(caps))

\* captures.sort((a, b) => a.scrollY - b.scrollY): a stable sort, captures
\* with equal scrollY keep their order
RECURSIVE InsertByScrollY(_, _)
InsertByScrollY(sorted, c) ==
    IF sorted = <<>> THEN <<c>>
    ELSE IF sorted[Len(sorted)].scrollY <= c.scrollY THEN Append(sorted, c)
    ELSE Append(InsertByScrollY(SubSeq(sorted, 1, Len(sorted) - 1), c),
                sorted[Len(sorted)])
RECURSIVE SortFrom(_, _, _)
SortFrom(caps, k, sorted) ==
    IF k > Len(caps) THEN sorted
    ELSE SortFrom(caps, k + 1, InsertByScrollY(sorted, caps[k]))
SortByScrollY(caps) == SortFrom(caps, 1, <<>>)

\* pageInfo.devicePixelRatio || 1
Dpr(pageInfo) ==
    IF pageInfo.devicePixelRatio.num = 0 THEN [num |-> 1, den |-> 1]
    ELSE pageInfo.devicePixelRatio

\* Math.ceil(x * dpr) and Math.round(x * dpr) for x >= 0
CeilScaled(x, dpr) == CeilDiv(x * dpr.num, dpr.den)
RoundScaled(x, dpr) == (2 * x * dpr.num + dpr.den) \div (2 * dpr.den)

\* const destY = Math.round(cap.scrollY * dpr)
DestY(cap, pageInfo) == RoundScaled(cap.scrollY, Dpr(pageInfo))
\* const srcHeight = Math.round(cap.clipHeight * dpr)
SrcHeight(cap, pageInfo) == RoundScaled(cap.clipHeight, Dpr(pageInfo))

\* a canvas row nothing was drawn on
Blank == [dataUrl |-> 0, row |-> 0]

\* ctx.drawImage(img, 0, 0, w, srcHeight, 0, destY, canvasWidth, srcHeight):
\* the rows of the destination rectangle that lie on the canvas take the
\* image's rows
DrawImage(rows, cap, pageInfo) ==
    [r \in DOMAIN rows |->
        IF /\ DestY(cap, pageInfo) <= r
           /\ r < DestY(cap, pageInfo) + SrcHeight(cap, pageInfo)
        THEN [dataUrl |-> cap.dataUrl, row |-> r - DestY(cap, pageInfo)]
        ELSE rows[r]]

\* captures.forEach(...): every capture drawn, in list order
RECURSIVE DrawFrom(_, _, _, _)
DrawFrom(rows, caps, k, pageInfo) ==
    IF k > Len(caps) THEN rows
    ELSE DrawFrom(DrawImage(rows, caps[k], pageInfo), caps, k + 1, pageInfo)

\* Promise.all over _loadImage: rejects when one image fails to decode
AllDecode(caps) == \A k \in 1..Len(caps) : ImageTable[caps[k].dataUrl].decodes

\* the canvas stitch returns for captures that are sorted and all decode
StitchCanvas(caps, pageInfo) ==
    LET height == CeilScaled(pageInfo.pageHeight, Dpr(pageInfo)) IN
    [width |-> ImageTable[caps[1].dataUrl].naturalWidth,
     height |-> height,
     rows |-> DrawFrom([r \in 0..(height - 1) |-> Blank], caps, 1, pageInfo)]

\* stitch(captures, pageInfo) as a whole: the canvas, or NULL when it throws
Stitch(caps, pageInfo) ==
    IF ~AllDecode(caps) \/ caps = <<>> THEN NULL
    ELSE StitchCanvas(SortByScrollY(caps), pageInfo)

InitStitch ==
    /\ ProtocolInit
    /\ popupRun = PopupIdle
    /\ zipRun = NULL
    /\ sectionRun = NULL
    /\ compressRun = NULL
    /\ viewerRun = NULL
    /\ \E h \in StitchPageHeights, d \in DevicePixelRatios :
         \E caps \in StitchInputs(h) :
           \E given \in {caps, Reversed(caps)} :
             stitchRun = [pc |-> "called", input |-> given, captures |-> given,
                          pageInfo |-> [pageHeight |-> h, devicePixelRatio |-> d],
                          canvas |-> NULL]

\* captures.sort(...) in place, then await Promise.all(captures.map(_loadImage))
StitchSort ==
    /\ stitchRun # NULL
    /\ stitchRun.pc = "called"
    /\ stitchRun' = [stitchRun EXCEPT !.captures = SortByScrollY(@), !.pc = "loading"]
    /\ UNCHANGED <<protocolVars, popupRun, zipRun, sectionRun, compressRun, viewerRun>>

\* an image fails to decode: img.onerror rejects and stitch throws
StitchLoadRejects ==
    /\ stitchRun # NULL
    /\ stitchRun.pc = "loading"
    /\ ~AllDecode(stitchRun.captures)
    /\ stitchRun' = [stitchRun EXCEPT !.pc = "threw"]
    /\ UNCHANGED <<protocolVars, popupRun, zipRun, sectionRun, compressRun, viewerRun>>

\* no capture at all: images[0].naturalWidth throws a TypeError
StitchNoImages ==
    /\ stitchRun # NULL
    /\ stitchRun.pc = "loading"
    /\ stitchRun.captures = <<>>
    /\ stitchRun' = [stitchRun EXCEPT !.pc = "threw"]
    /\ UNCHANGED <<protocolVars, popupRun, zipRun, sectionRun, compressRun, viewerRun>>

\* all images loaded: the canvas is sized, every capture is drawn, and the
\* canvas is returned
StitchDraw ==
    /\ stitchRun # NULL
    /\ stitchRun.pc = "loading"
    /\ AllDecode(stitchRun.captures)
    /\ stitchRun.captures # <<>>
    /\ stitchRun' = [stitchRun EXCEPT
            !.canvas = StitchCanvas(stitchRun.captures, stitchRun.pageInfo),
            !.pc = "returned"]
    /\ UNCHANGED <<protocolVars, popupRun, zipRun, sectionRun, compressRun, viewerRun>>

NextStitch == StitchSort \/ StitchLoadRejects \/ StitchNoImages \/ StitchDraw

SpecStitch == InitStitch /\ [][NextStitch]_vars

\* ------------------------------------------------- stitch: vocabulary
StitchReturned == stitchRun # NULL /\ stitchRun.pc = "returned"
StitchThrew == stitchRun # NULL /\ stitchRun.pc = "threw"

\* every order the given captures could have been handed over in
Reorderings(caps) ==
    {[k \in 1..Len(caps) |-> caps[f[k]]] : f \in Permutations(1..Len(caps))}

\* a page row no capture covers
MissingCapture(caps, pageInfo) ==
    \E r \in 0..(pageInfo.pageHeight - 1) :
        \A k \in 1..Len(caps) :
            ~(caps[k].scrollY <= r /\ r < caps[k].scrollY + caps[k].clipHeight)

\* a capture whose decoded width differs from the first capture's
MismatchedWidth(caps) ==
    \E k \in 1..Len(caps) :
        /\ ImageTable[caps[k].dataUrl].decodes
        /\ ImageTable[caps[1].dataUrl].decodes
        /\ ImageTable[caps[k].dataUrl].naturalWidth
             # ImageTable[caps[1].dataUrl].naturalWidth

\* C11: the canvas stitch returns has height ceil(pageHeight x dpr), and
\* stitching the same captures handed over in any other order gives the
\* same canvas.
C11_PermutationInvariant ==
    StitchReturned =>
        /\ stitchRun.canvas.height
             = CeilScaled(stitchRun.pageInfo.pageHeight, Dpr(stitchRun.pageInfo))
        /\ \A p \in Reorderings(stitchRun.input) :
               Stitch(p, stitchRun.pageInfo) = stitchRun.canvas

\* C12: every drawn capture that lies inside the page has its destination
\* rows inside the canvas: round(scrollY x dpr) + round(clipHeight x dpr)
\* <= ceil(pageHeight x dpr).
C12_DrawInsideCanvas ==
    StitchReturned =>
        \A k \in 1..Len(stitchRun.captures) :
            LET cap == stitchRun.captures[k] IN
            cap.scrollY + cap.clipHeight <= stitchRun.pageInfo.pageHeight
                => DestY(cap, stitchRun.pageInfo) + SrcHeight(cap, stitchRun.pageInfo)
                     <= stitchRun.canvas.height

\* C13: when a capture is missing, a decoded width differs from the first
\* capture's, or an image fails to decode, stitch does not return a canvas.
C13_StitchFails ==
    (/\ stitchRun # NULL
     /\ \/ MissingCapture(stitchRun.input, stitchRun.pageInfo)
        \/ MismatchedWidth(stitchRun.captures)
        \/ ~AllDecode(stitchRun.input))
        => ~StitchReturned /\ stitchRun.canvas = NULL

\* ------------------------------------------- smartSection, _findBreakPoint
SECTION_MAX_HEIGHT == 4096
searchRange == 200
SampleStride == 4

\* small canvases: every height up to MaxImageHeight, every set of uniform rows
MaxImageHeight == 6
\* iterations of the while loop that are followed
MaxSections == 8

\* the tall canvas: uniform bands around and just past the cut targets
TallImageHeight == 9000
TallUniformRows == {3896, 4096, 4292, 4492, 8188, 8584}

\* options.sectionMaxHeight as stored; 0 stands for a missing value
SectionMaxHeights == {0, 1, 2, 3}

\* a canvas is its height and the rows that are one uniform colour
SectionInputs ==
    {[canvas |-> [height |-> h, uniformRows |-> u],
      options |-> [sectionMaxHeight |-> m]] :
        h \in 0..MaxImageHeight, u \in SUBSET (0..MaxImageHeight), m \in SectionMaxHeights}
    \cup
    {[canvas |-> [height |-> TallImageHeight, uniformRows |-> u],
      options |-> [sectionMaxHeight |-> m]] :
        u \in SUBSET TallUniformRows, m \in {0, SECTION_MAX_HEIGHT}}

\* options.sectionMaxHeight || this.SECTION_MAX_HEIGHT
MaxSectionHeight(options) ==
    IF options.sectionMaxHeight = 0 THEN SECTION_MAX_HEIGHT ELSE options.sectionMaxHeight

\* _rowVariance of the pixels of row y: 0 for a row of one colour
RowVariance(canvas, y) == IF y \in canvas.uniformRows THEN 0 ELSE 1
\* above every variance
Infinity == 2

SingleSectionNever(totalHeight, maxSectionHeight) == FALSE
\* if (totalHeight <= maxSectionHeight)
SingleSection(totalHeight, maxSectionHeight) == totalHeight <= maxSectionHeight

TargetEndYUnclamped(currentY, maxSectionHeight, totalHeight) ==
    currentY + maxSectionHeight
\* let endY = Math.min(currentY + maxSectionHeight, totalHeight)
TargetEndY(currentY, maxSectionHeight, totalHeight) ==
    Min(currentY + maxSectionHeight, totalHeight)

ScanStartWide(startY, targetEndY, maxHeight) == targetEndY - 2 * searchRange
\* Math.max(startY + Math.floor(maxHeight * 0.7), targetEndY - searchRange)
ScanStart(startY, targetEndY, maxHeight) ==
    Max(startY + ((7 * maxHeight) \div 10), targetEndY - searchRange)

ScanEndWide(canvas, targetEndY) == Min(targetEndY + 2 * searchRange, canvas.height)
\* Math.min(targetEndY + searchRange, canvas.height)
ScanEnd(canvas, targetEndY) == Min(targetEndY + searchRange, canvas.height)

InitSection ==
    /\ ProtocolInit
    /\ popupRun = PopupIdle
    /\ zipRun = NULL
    /\ stitchRun = NULL
    /\ compressRun = NULL
    /\ viewerRun = NULL
    /\ \E in \in SectionInputs :
         /\ in.canvas.uniformRows \subseteq 0..(in.canvas.height - 1)
         /\ sectionRun = [pc |-> "called", canvas |-> in.canvas, options |-> in.options,
                          sections |-> <<>>, currentY |-> 0, index |-> 0,
                          searches |-> 0, scan |-> NULL]

\* sections.push({ canvas: section, startY: currentY, endY, index });
\* currentY = endY; index++
PushSection(run, endY) ==
    [run EXCEPT
        !.sections = Append(@, [canvas |-> [height |-> endY - run.currentY],
                                startY |-> run.currentY, endY |-> endY,
                                index |-> run.index]),
        !.currentY = endY,
        !.index = @ + 1,
        !.scan = NULL,
        !.pc = "loop"]

\* the canvas fits one section: it is returned whole
SectionWhole ==
    /\ sectionRun # NULL
    /\ sectionRun.pc = "called"
    /\ SingleSection(sectionRun.canvas.height, MaxSectionHeight(sectionRun.options))
    /\ sectionRun' = [sectionRun EXCEPT
            !.sections = <<[canvas |-> [height |-> sectionRun.canvas.height],
                            startY |-> 0, endY |-> sectionRun.canvas.height,
                            index |-> 0]>>,
            !.pc = "returned"]
    /\ UNCHANGED <<protocolVars, popupRun, zipRun, stitchRun, compressRun, viewerRun>>

\* otherwise: sections = [], currentY = 0, index = 0 and the loop starts
SectionLoop ==
    /\ sectionRun # NULL
    /\ sectionRun.pc = "called"
    /\ ~SingleSection(sectionRun.canvas.height, MaxSectionHeight(sectionRun.options))
    /\ sectionRun' = [sectionRun EXCEPT !.pc = "loop"]
    /\ UNCHANGED <<protocolVars, popupRun, zipRun, stitchRun, compressRun, viewerRun>>

\* an iteration of while (currentY < totalHeight) whose endY is the canvas
\* height: the last section is cut there
SectionCutLast ==
    /\ sectionRun # NULL
    /\ sectionRun.pc = "loop"
    /\ sectionRun.currentY < sectionRun.canvas.height
    /\ LET endY == TargetEndY(sectionRun.currentY, MaxSectionHeight(sectionRun.options),
                              sectionRun.canvas.height)
       IN /\ ~(endY < sectionRun.canvas.height)
          /\ sectionRun' = PushSection(sectionRun, endY)
    /\ UNCHANGED <<protocolVars, popupRun, zipRun, stitchRun, compressRun, viewerRun>>

\* an iteration with endY < totalHeight: _findBreakPoint is called and sets
\* up its scan
FindBreakPoint ==
    /\ sectionRun # NULL
    /\ sectionRun.pc = "loop"
    /\ sectionRun.currentY < sectionRun.canvas.height
    /\ Len(sectionRun.sections) < MaxSections
    /\ LET maxHeight == MaxSectionHeight(sectionRun.options)
           targetEndY == TargetEndY(sectionRun.currentY, maxHeight,
                                    sectionRun.canvas.height)
       IN /\ targetEndY < sectionRun.canvas.height
          /\ sectionRun' = [sectionRun EXCEPT
                !.pc = "scan",
                !.searches = @ + 1,
                !.scan = [y |-> ScanStart(sectionRun.currentY, targetEndY, maxHeight),
                          scanStart |-> ScanStart(sectionRun.currentY, targetEndY, maxHeight),
                          scanEnd |-> ScanEnd(sectionRun.canvas, targetEndY),
                          bestY |-> targetEndY,
                          bestVariance |-> Infinity]]
    /\ UNCHANGED <<protocolVars, popupRun, zipRun, stitchRun, compressRun, viewerRun>>

BetterOrEqual(variance, bestVariance) == variance <= bestVariance
\* if (variance < bestVariance)
Better(variance, bestVariance) == variance < bestVariance

\* one pass of for (let y = scanStart; y < scanEnd; y += 4): the row
\* replaces the best one only when its variance is strictly lower
ScanRow ==
    /\ sectionRun # NULL
    /\ sectionRun.pc = "scan"
    /\ sectionRun.scan.y < sectionRun.scan.scanEnd
    /\ LET y == sectionRun.scan.y
           variance == RowVariance(sectionRun.canvas, y)
       IN sectionRun' = [sectionRun EXCEPT
            !.scan.bestVariance = IF Better(variance, @) THEN variance ELSE @,
            !.scan.bestY = IF Better(variance, sectionRun.scan.bestVariance) THEN y ELSE @,
            !.scan.y = y + SampleStride]
    /\ UNCHANGED <<protocolVars, popupRun, zipRun, stitchRun, compressRun, viewerRun>>

\* the scan is over: _findBreakPoint returns bestY and the section is cut there
SectionCutAtBreakPoint ==
    /\ sectionRun # NULL
    /\ sectionRun.pc = "scan"
    /\ ~(sectionRun.scan.y < sectionRun.scan.scanEnd)
    /\ sectionRun' = PushSection(sectionRun, sectionRun.scan.bestY)
    /\ UNCHANGED <<protocolVars, popupRun, zipRun, stitchRun, compressRun, viewerRun>>

\* the loop ends: return sections
SectionReturn ==
    /\ sectionRun # NULL
    /\ sectionRun.pc = "loop"
    /\ ~(sectionRun.currentY < sectionRun.canvas.height)
    /\ sectionRun' = [sectionRun EXCEPT !.pc = "returned"]
    /\ UNCHANGED <<protocolVars, popupRun, zipRun, stitchRun, compressRun, viewerRun>>

NextSection ==
    \/ SectionWhole
    \/ SectionLoop
    \/ SectionCutLast
    \/ FindBreakPoint
    \/ ScanRow
    \/ SectionCutAtBreakPoint
    \/ SectionReturn

SpecSection == InitSection /\ [][NextSection]_vars

\* ------------------------------------------- smartSection: vocabulary
SectionReturned == sectionRun # NULL /\ sectionRun.pc = "returned"
TallRun ==
    /\ sectionRun # NULL
    /\ sectionRun.canvas.height = TallImageHeight
    /\ MaxSectionHeight(sectionRun.options) = SECTION_MAX_HEIGHT

\* C14: the returned sections are numbered 0,1,2,..., start at 0, each
\* starts where the previous one ends, and the last ends at the canvas
\* height: disjoint, sorted, union [0,H).
C14_SectionsPartition ==
    SectionReturned =>
        LET secs == sectionRun.sections IN
        /\ Len(secs) >= 1
        /\ secs[1].startY = 0
        /\ secs[Len(secs)].endY = sectionRun.canvas.height
        /\ \A k \in 1..Len(secs) :
             /\ secs[k].index = k - 1
             /\ secs[k].startY <= secs[k].endY
             /\ secs[k].startY < secs[k].endY \/ sectionRun.canvas.height = 0
             /\ k > 1 => secs[k].startY = secs[k - 1].endY
C14_SeveralSections ==
    /\ SectionReturned
    /\ Len(sectionRun.sections) >= 3
    /\ sectionRun.searches >= 2

\* C15: a canvas no taller than sectionMaxHeight comes back as exactly one
\* section (0, H, index 0) and no break point is searched.
C15_SingleSection ==
    (/\ SectionReturned
     /\ sectionRun.canvas.height <= MaxSectionHeight(sectionRun.options))
        => /\ sectionRun.sections
                = <<[canvas |-> [height |-> sectionRun.canvas.height], startY |-> 0,
                     endY |-> sectionRun.canvas.height, index |-> 0]>>
           /\ sectionRun.searches = 0
C15_ReturnedWhole ==
    /\ SectionReturned
    /\ sectionRun.canvas.height = MaxSectionHeight(sectionRun.options)
    /\ sectionRun.canvas.uniformRows # {}
    /\ Len(sectionRun.sections) = 1

\* C16 (as stated): every returned section is at most sectionMaxHeight tall.
C16_HeightBounded ==
    SectionReturned =>
        \A k \in 1..Len(sectionRun.sections) :
            sectionRun.sections[k].endY - sectionRun.sections[k].startY
                <= MaxSectionHeight(sectionRun.options)
\* C16 (amended): every returned section is less than sectionMaxHeight +
\* searchRange tall, and the last one is at most sectionMaxHeight tall.
C16_HeightWithinSearchRange ==
    SectionReturned =>
        /\ \A k \in 1..Len(sectionRun.sections) :
             sectionRun.sections[k].endY - sectionRun.sections[k].startY
                 < MaxSectionHeight(sectionRun.options) + searchRange
        /\ sectionRun.sections[Len(sectionRun.sections)].endY
             - sectionRun.sections[Len(sectionRun.sections)].startY
                 <= MaxSectionHeight(sectionRun.options)
C16_TallerThanMax ==
    /\ SectionReturned
    /\ TallRun
    /\ \E k \in 1..Len(sectionRun.sections) :
         sectionRun.sections[k].endY - sectionRun.sections[k].startY
             = SECTION_MAX_HEIGHT + searchRange - SampleStride

\* C17 (as stated): a 9000 px canvas with sectionMaxHeight 4096 comes back
\* as 3 sections covering [0,9000) with the first boundary within 200 px of
\* 4096 and the second within 200 px of 8192.
C17_BoundariesNearMultiples ==
    (SectionReturned /\ TallRun) =>
        LET secs == sectionRun.sections IN
        /\ Len(secs) = 3
        /\ secs[1].startY = 0 /\ secs[2].startY = secs[1].endY
        /\ secs[3].startY = secs[2].endY /\ secs[3].endY = TallImageHeight
        /\ secs[1].endY >= SECTION_MAX_HEIGHT - searchRange
        /\ secs[1].endY <= SECTION_MAX_HEIGHT + searchRange
        /\ secs[2].endY >= 2 * SECTION_MAX_HEIGHT - searchRange
        /\ secs[2].endY <= 2 * SECTION_MAX_HEIGHT + searchRange
\* C17 (amended): 3 sections covering [0,9000), the first boundary within
\* 200 px of 4096 and the second within 200 px of the first boundary + 4096.
C17_BoundariesNearTargets ==
    (SectionReturned /\ TallRun) =>
        LET secs == sectionRun.sections IN
        /\ Len(secs) = 3
        /\ secs[1].startY = 0 /\ secs[2].startY = secs[1].endY
        /\ secs[3].startY = secs[2].endY /\ secs[3].endY = TallImageHeight
        /\ secs[1].endY >= SECTION_MAX_HEIGHT - searchRange
        /\ secs[1].endY < SECTION_MAX_HEIGHT + searchRange
        /\ secs[2].endY >= secs[1].endY + SECTION_MAX_HEIGHT - searchRange
        /\ secs[2].endY < secs[1].endY + SECTION_MAX_HEIGHT + searchRange
C17_SecondBoundaryDrifts ==
    /\ SectionReturned
    /\ TallRun
    /\ Len(sectionRun.sections) = 3
    /\ sectionRun.sections[2].endY > 2 * SECTION_MAX_HEIGHT + searchRange

\* ------------------------------------------------- compress, _tryFormat
\* options.compressionStrategy as stored; "" stands for a missing value
CompressionStrategies == {"", "auto", "aggressive", "lossless"}
\* options.maxFileSizeMB as stored; 0 stands for a missing value
MaxFileSizesMB == {0, 1, 3}
\* blob.size of an encoding, in bytes: whatever the encoder produces
\* (qualities and scale factors below are in hundredths)
BlobSizes == {1048576, 3145728, 3145729}

\* const maxSize = (options.maxFileSizeMB || 3) * 1024 * 1024
MaxSize(options) ==
    (IF options.maxFileSizeMB = 0 THEN 3 ELSE options.maxFileSizeMB) * 1024 * 1024
StrategyAggressiveAsLossless(options) ==
    IF options.compressionStrategy \in {"aggressive", "lossless"} THEN "lossless"
    ELSE "auto"
\* const strategy = options.compressionStrategy || 'auto'
Strategy(options) ==
    IF options.compressionStrategy = "" THEN "auto" ELSE options.compressionStrategy

\* _tryFormat: the encoding when it fits maxSize, else null
TryFormat(size, format, quality, maxSize) ==
    IF size <= maxSize
    THEN [blob |-> [size |-> size], format |-> format, quality |-> quality,
          scaled |-> FALSE]
    ELSE NULL

ScaleDropped(result, scale) == result
\* { ...result, scaled: true, scaleFactor: scale }
Scaled(result, scale) ==
    [blob |-> result.blob, format |-> result.format, quality |-> result.quality,
     scaled |-> TRUE, scaleFactor |-> scale]

\* one more encoding has been made
Attempted(run, format, quality, scale, result) ==
    [run EXCEPT !.attempts = Append(@, [format |-> format, quality |-> quality,
                                        scale |-> scale, fits |-> result # NULL])]

\* return result
Returns(run, result) == [run EXCEPT !.result = result, !.pc = "returned"]

InitCompress ==
    /\ ProtocolInit
    /\ popupRun = PopupIdle
    /\ zipRun = NULL
    /\ stitchRun = NULL
    /\ sectionRun = NULL
    /\ viewerRun = NULL
    /\ \E st \in CompressionStrategies, mb \in MaxFileSizesMB :
         compressRun = [pc |-> "called",
                        options |-> [compressionStrategy |-> st, maxFileSizeMB |-> mb],
                        loop |-> "webp", q |-> 92, scale |-> 100,
                        attempts |-> <<>>, result |-> NULL]

\* strategy === 'lossless': return this._tryFormat(canvas, 'image/png', 1.0, maxSize)
CompressLossless ==
    /\ compressRun # NULL
    /\ compressRun.pc = "called"
    /\ Strategy(compressRun.options) = "lossless"
    /\ \E size \in BlobSizes :
         LET result == TryFormat(size, "image/png", 100, MaxSize(compressRun.options))
         IN compressRun' = Returns(Attempted(compressRun, "image/png", 100,
                                             100, result), result)
    /\ UNCHANGED <<protocolVars, popupRun, zipRun, stitchRun, sectionRun, viewerRun>>

\* for (let q = 0.92; q >= 0.3; q -= 0.1): one WebP encoding of the canvas
TryWebP ==
    /\ compressRun # NULL
    /\ compressRun.pc = "called"
    /\ Strategy(compressRun.options) # "lossless"
    /\ compressRun.loop = "webp"
    /\ \E size \in BlobSizes :
         LET q == compressRun.q
             result == TryFormat(size, "image/webp", q, MaxSize(compressRun.options))
             tried == Attempted(compressRun, "image/webp", q, 100, result)
         IN compressRun' =
              IF result # NULL THEN Returns(tried, result)
              ELSE IF q - 10 >= 30
                   THEN [tried EXCEPT !.q = q - 10]
                   ELSE [tried EXCEPT !.loop = "jpeg", !.q = 85]
    /\ UNCHANGED <<protocolVars, popupRun, zipRun, stitchRun, sectionRun, viewerRun>>

\* for (let q = 0.85; q >= 0.3; q -= 0.1): one JPEG encoding of the canvas
TryJPEG ==
    /\ compressRun # NULL
    /\ compressRun.pc = "called"
    /\ compressRun.loop = "jpeg"
    /\ \E size \in BlobSizes :
         LET q == compressRun.q
             result == TryFormat(size, "image/jpeg", q, MaxSize(compressRun.options))
             tried == Attempted(compressRun, "image/jpeg", q, 100, result)
         IN compressRun' =
              IF result # NULL THEN Returns(tried, result)
              ELSE IF q - 10 >= 30
                   THEN [tried EXCEPT !.q = q - 10]
                   ELSE [tried EXCEPT !.loop = "scaled", !.scale = 75,
                                      !.q = 80]
    /\ UNCHANGED <<protocolVars, popupRun, zipRun, stitchRun, sectionRun, viewerRun>>

\* while (scale >= 0.25) { for (let q = 0.8; q >= 0.4; q -= 0.15) ... scale -= 0.1 }:
\* one WebP encoding of the scaled canvas
TryScaled ==
    /\ compressRun # NULL
    /\ compressRun.pc = "called"
    /\ compressRun.loop = "scaled"
    /\ \E size \in BlobSizes :
         LET q == compressRun.q
             scale == compressRun.scale
             result == TryFormat(size, "image/webp", q, MaxSize(compressRun.options))
             tried == Attempted(compressRun, "image/webp", q, scale, result)
         IN compressRun' =
              IF result # NULL THEN Returns(tried, Scaled(result, scale))
              ELSE IF q - 15 >= 40
                   THEN [tried EXCEPT !.q = q - 15]
                   ELSE IF scale - 10 >= 25
                        THEN [tried EXCEPT !.scale = scale - 10,
                                           !.q = 80]
                        ELSE [tried EXCEPT !.loop = "lastResort"]
    /\ UNCHANGED <<protocolVars, popupRun, zipRun, stitchRun, sectionRun, viewerRun>>

\* last resort: JPEG at quality 0.3 of the canvas scaled to 50%, returned
\* without looking at its size
LastResort ==
    /\ compressRun # NULL
    /\ compressRun.pc = "called"
    /\ compressRun.loop = "lastResort"
    /\ \E size \in BlobSizes :
         LET result == [blob |-> [size |-> size], format |-> "image/jpeg",
                        quality |-> 30, scaled |-> TRUE,
                        scaleFactor |-> 50]
         IN compressRun' =
              Returns([compressRun EXCEPT !.attempts =
                          Append(@, [format |-> "image/jpeg", quality |-> 30,
                                     scale |-> 50,
                                     fits |-> size <= MaxSize(compressRun.options)])],
                      result)
    /\ UNCHANGED <<protocolVars, popupRun, zipRun, stitchRun, sectionRun, viewerRun>>

NextCompress == CompressLossless \/ TryWebP \/ TryJPEG \/ TryScaled \/ LastResort

SpecCompress == InitCompress /\ [][NextCompress]_vars

\* ------------------------------------------------- compress: vocabulary
CompressReturned == compressRun # NULL /\ compressRun.pc = "returned"

\* the encodings of a loop from quality `from` down to `to` in steps of `step`
LadderLength(from, to, step) == ((from - to) \div step) + 1
\* all candidates of the three loops, and the last resort
AllCandidates ==
    LadderLength(92, 30, 10)
    + LadderLength(85, 30, 10)
    + LadderLength(75, 25, 10)
        * LadderLength(80, 40, 15)
    + 1

\* a field of the result beyond those of an encoding marks it
Flagged(result) ==
    DOMAIN result \ {"blob", "format", "quality", "scaled", "scaleFactor"} # {}

\* C18: with strategy lossless compress makes one image/png encoding and
\* returns it as a result whatever its size, never null.
C18_LosslessAlwaysReturned ==
    (CompressReturned /\ Strategy(compressRun.options) = "lossless")
        => /\ Len(compressRun.attempts) = 1
           /\ compressRun.attempts[1].format = "image/png"
           /\ compressRun.result # NULL
           /\ compressRun.result.format = "image/png"

\* C19: for every strategy and every encoder output compress stops within
\* the number of candidates and returns a result with blob, format and quality.
C19_ReturnsResult ==
    /\ compressRun # NULL => Len(compressRun.attempts) <= AllCandidates
    /\ CompressReturned
         => /\ compressRun.result # NULL
            /\ {"blob", "format", "quality"} \subseteq DOMAIN compressRun.result

\* C20: with the default strategy the result fits maxSize unless it is
\* flagged over-budget, and a result that does not fit is returned only
\* after every candidate was encoded and found too large.
C20_WithinBudgetUnlessFlagged ==
    (CompressReturned /\ Strategy(compressRun.options) # "lossless")
        => /\ \/ compressRun.result.blob.size <= MaxSize(compressRun.options)
              \/ Flagged(compressRun.result)
           /\ compressRun.result.blob.size > MaxSize(compressRun.options)
                => /\ Len(compressRun.attempts) = AllCandidates
                   /\ \A k \in 1..(AllCandidates - 1) : ~compressRun.attempts[k].fits

\* the candidates in the order the ladders are described: WebP from 0.92
\* in steps of 0.10, JPEG from 0.85 in steps of 0.10, then scales from 0.75
\* in steps of 0.10, each with WebP 0.80, 0.65, 0.50
CandidateOrder ==
    [k \in 1..7 |-> [format |-> "image/webp", quality |-> 92 - 10 * (k - 1), scale |-> 100]]
    \o [k \in 1..6 |-> [format |-> "image/jpeg", quality |-> 85 - 10 * (k - 1), scale |-> 100]]
    \o [k \in 1..18 |-> [format |-> "image/webp", quality |-> 80 - 15 * ((k - 1) % 3),
                         scale |-> 75 - 10 * ((k - 1) \div 3)]]

\* the scale a result reports
ResultScale(result) == IF result.scaled THEN result.scaleFactor ELSE 100

\* C21: with the default strategy the encodings follow the fixed candidate
\* order; a result taken from the ladders is the first candidate that fits
\* the target and reports that candidate's format, quality and scale.
C21_FirstFittingCandidate ==
    (CompressReturned /\ Strategy(compressRun.options) # "lossless")
        => LET tried == compressRun.attempts
               n == Len(tried)
           IN /\ \A k \in 1..n :
                   /\ k <= Len(CandidateOrder)
                        => /\ tried[k].format = CandidateOrder[k].format
                           /\ tried[k].quality = CandidateOrder[k].quality
                           /\ tried[k].scale = CandidateOrder[k].scale
                   /\ k < n => ~tried[k].fits
              /\ n <= Len(CandidateOrder) + 1
              /\ n <= Len(CandidateOrder)
                   => /\ tried[n].fits
                      /\ compressRun.result.blob.size <= MaxSize(compressRun.options)
                      /\ compressRun.result.format = CandidateOrder[n].format
                      /\ compressRun.result.quality = CandidateOrder[n].quality
                      /\ ResultScale(compressRun.result) = CandidateOrder[n].scale
C21_ScaledCandidateReturned ==
    /\ CompressReturned
    /\ Strategy(compressRun.options) = "aggressive"
    /\ Len(compressRun.attempts) = 18
    /\ compressRun.result.scaled
    /\ compressRun.result.scaleFactor = 65
    /\ compressRun.result.quality = 65

\* C22: when every candidate is too large the result is the primary lossy
\* format (WebP) at scale 0.5 and quality 0.3, and it carries a flag that
\* marks it as over-budget.
C22_ForcedPrimaryFlagged ==
    (/\ CompressReturned
     /\ Len(compressRun.attempts) = AllCandidates
     /\ \A k \in 1..(AllCandidates - 1) : ~compressRun.attempts[k].fits)
        => /\ compressRun.result.format = CandidateOrder[1].format
           /\ compressRun.result.quality = 30
           /\ ResultScale(compressRun.result) = 50
           /\ Flagged(compressRun.result)

\* ------------------------------------------- _findBreakPoint: vocabulary
\* _findBreakPoint has finished its scan and is about to return bestY
ScanFinished ==
    /\ sectionRun # NULL
    /\ sectionRun.pc = "scan"
    /\ ~(sectionRun.scan.y < sectionRun.scan.scanEnd)

\* the rows from, from + 4, ... below to
SampledRows(from, to) == {y \in from..(to - 1) : (y - from) % SampleStride = 0}

\* C28: for a cut that starts at startY with targetEnd = startY + M the row
\* _findBreakPoint returns is one of the rows scanStart, scanStart + 4, ...
\* below scanEnd, has the least variance of them and is the topmost such row.
C28_TopmostMinimumRow ==
    ScanFinished =>
        LET startY == sectionRun.currentY
            M == MaxSectionHeight(sectionRun.options)
            targetEnd == startY + M
            scanStart == Max(startY + ((7 * M) \div 10), targetEnd - 200)
            scanEnd == Min(targetEnd + 200, sectionRun.canvas.height)
            rows == SampledRows(scanStart, scanEnd)
            y == sectionRun.scan.bestY
        IN /\ y \in rows
           /\ \A r \in rows :
                /\ RowVariance(sectionRun.canvas, y) <= RowVariance(sectionRun.canvas, r)
                /\ RowVariance(sectionRun.canvas, r) = RowVariance(sectionRun.canvas, y)
                     => y <= r
C28_TieAmongUniformRows ==
    /\ ScanFinished
    /\ sectionRun.canvas.height = TallImageHeight
    /\ sectionRun.scan.bestY = 4096
    /\ {4096, 4292} \subseteq sectionRun.canvas.uniformRows

\* ------------------------------------------------- C24 - C30: the protocol
\* the page as the driver's restoration leaves it
PageNow ==
    [scrollY |-> windowScrollY, scrollBehavior |-> scrollBehavior,
     htmlOverflow |-> htmlOverflow, bodyOverflow |-> bodyOverflow,
     visibility |-> elVisibility]

\* the one beginCapture of the run has been followed by cleanup()
BeganOnceThenCleanedUp == startsIssued = 1 /\ haltedByError /\ ~restorePending

\* C30: after beginCapture followed by cleanup the scroll position, the root's
\* inline scrollBehavior and overflow, the body's inline overflow and every
\* fixed element's inline visibility are what they were before beginCapture,
\* whatever they were.
C30_RestorationRoundTrip == BeganOnceThenCleanedUp => PageNow = initialPage

\* C25: the settings of a run are loaded once at start-capture and stay: no
\* step between start-capture and capture-complete, a save-settings among
\* them, changes captureState.settings, and the result is stored with them.
C25_SettingsFixedDuringRun ==
    [][/\ (captureState # NULL /\ captureState' # NULL)
            => captureState'.settings = captureState.settings
       /\ (lastCapture' # lastCapture /\ captureState # NULL)
            => lastCapture'.settings = captureState.settings]_vars

\* C24: on a window of height 0 the page cannot be measured and the session
\* is aborted: no capture-viewport request is sent, the driver waits for no
\* scroll to settle and takes no scroll step.
C24_NoCaptureWithoutViewport ==
    innerHeight = 0 => Requests = {} /\ settleTimers = <<>> /\ scrollIndex = 0

\* the capture-complete messages on their way to the background
Completes == {k \in 1..Len(toBackground) : toBackground[k].action = "capture-complete"}

\* C27: capture-complete is sent once, after expectedCount snapshots have
\* succeeded, and the result handleCaptureComplete stores holds expectedCount
\* captures.
C27_CompleteAfterAllSnapshots ==
    LET expectedCount == ExpectedCount(MeasuredPageHeight, innerHeight) IN
    /\ Cardinality(Completes) + Len(completeHandlers) <= 1
    /\ Completes # {} =>
            captureState # NULL /\ Len(captureState.captures) = expectedCount
    /\ \A i \in 1..Len(completeHandlers) :
            Len(completeHandlers[i].result.captures) = expectedCount
    /\ lastCapture # NULL => Len(lastCapture.captures) = expectedCount

\* this step is the setTimeout callback of settle wait i sending its request
RequestOf(i) ==
    /\ i \in 1..Len(settleTimers)
    /\ settleTimers' = RemoveAt(settleTimers, i)
    /\ Sends(toBackground, toBackground', "capture-viewport")

\* C29: a capture-viewport request is sent by the settle wait of the most
\* recent scroll, after its animation frame and SETTLE_DELAY_MS more: never
\* while a later scroll is still waiting to settle.
C29_RequestAfterSettle ==
    [][\A i \in 1..Len(settleTimers) :
            RequestOf(i) =>
                /\ i = Len(settleTimers)
                /\ settleTimers[i].phase = "timeout"
                /\ now >= settleTimers[i].due]_vars

\* ================================================= viewer.js: the pipeline
\* ------------------------------------------------------------------ inputs
\* what chrome.storage.local holds under lastCapture when the viewer opens:
\* nothing, or the captures of a page 3 CSS px high with its page info and
\* the settings of the run
ViewerCaptureLists ==
    {<<>>,
     <<[dataUrl |-> 1, scrollY |-> 0, viewportHeight |-> 2, clipHeight |-> 2, index |-> 0],
       [dataUrl |-> 2, scrollY |-> 2, viewportHeight |-> 2, clipHeight |-> 1, index |-> 1]>>,
     <<[dataUrl |-> 1, scrollY |-> 0, viewportHeight |-> 2, clipHeight |-> 2, index |-> 0],
       [dataUrl |-> 4, scrollY |-> 2, viewportHeight |-> 2, clipHeight |-> 1, index |-> 1]>>}
ViewerPageInfos ==
    {[pageHeight |-> 3, devicePixelRatio |-> d, title |-> t] :
        d \in {[num |-> 1, den |-> 1], [num |-> 2, den |-> 1]}, t \in {"", "Page"}}
\* several sections are only cut for runs with the lossless strategy
ViewerSettings ==
    {st \in [enableSections : BOOLEAN, sectionMaxHeight : {2, SECTION_MAX_HEIGHT},
             compressionStrategy : {"auto", "lossless"}, maxFileSizeMB : {1, 3},
             enableOCR : BOOLEAN, quality : {92}] :
        st.compressionStrategy = "auto" => st.sectionMaxHeight = SECTION_MAX_HEIGHT}
CaptureDatas ==
    {NULL} \cup [captures : ViewerCaptureLists, pageInfo : ViewerPageInfos,
                 settings : ViewerSettings]

\* what Tesseract does when it is asked: its script fails to load, createWorker
\* rejects, recognize rejects, or it recognizes no text or some text
Recognizers == {"script-error", "worker-error", "recognize-error", "blank", "text"}
FailingRecognizers == {"script-error", "worker-error", "recognize-error"}

\* ------------------------------------------------------------ ocr-engine.js
\* _tesseractExtract: NULL stands for a rejection
TesseractExtract(recognizer) ==
    IF recognizer \in FailingRecognizers THEN NULL
    ELSE [text |-> IF recognizer = "blank" THEN "" ELSE "recognized",
          method |-> "tesseract",
          confidence |-> IF recognizer = "blank" THEN 0 ELSE 90,
          regions |-> <<>>]

\* the record extract returns when Tesseract is not used or has failed
DomFallback ==
    [text |-> "", method |-> "dom-fallback", confidence |-> 0, regions |-> <<>>,
     note |-> "OCR library not loaded. Text extracted from DOM metadata."]

ExtractRethrows(recognizer, options) == TesseractExtract(recognizer)
\* extract(canvas, options): the try / catch around _tesseractExtract
Extract(recognizer, options) ==
    IF options.useTesseract /\ TesseractExtract(recognizer) # NULL
    THEN TesseractExtract(recognizer)
    ELSE DomFallback

\* ---------------------------------------------------------------- viewer.js
\* buildDOMText(info): the parts it joins (title only; '' for no part)
BuildDOMText(info) == IF info.title # "" THEN <<"# ", info.title>> ELSE <<>>

\* setStatus(text, pct, isError): the class 'error' is added, never removed
SetStatus(run, text, isError) ==
    [run EXCEPT !.statusText = text,
                !.statusError = @ \/ isError,
                !.errorsShown = IF isError THEN @ + 1 ELSE @]

\* the rows of the stitched canvas no capture was drawn on are transparent,
\* of one colour; the rows of a capture are not
SectionCanvas(canvas) ==
    [height |-> canvas.height,
     uniformRows |-> {r \in DOMAIN canvas.rows : canvas.rows[r] = Blank}]

\* (result.blob.size / (1024 * 1024)).toFixed(2), in hundredths
SizeMB(blob) == (blob.size * 100 + 524288) \div 1048576

\* processedSections.push({ ...sections[i], blob, url, format, ... sizeMB })
ProcessedSection(section, result) ==
    Merge(Merge(section, result), [sizeMB |-> SizeMB(result.blob)])

\* Step 4: what extractedText is after it; NULL stands for extract throwing
ExtractedText(viewerSettings, pageInfo, ocrResult) ==
    IF viewerSettings.enableOCR
    THEN IF ocrResult = NULL
         THEN BuildDOMText(pageInfo) \o <<"--- OCR engine failed, text extracted from DOM ---">>
         ELSE (IF ocrResult.text # "" THEN <<ocrResult.text>> ELSE BuildDOMText(pageInfo))
              \o (IF ocrResult.confidence > 0 THEN <<"--- OCR Confidence ---">> ELSE <<>>)
    ELSE BuildDOMText(pageInfo)
         \o <<"--- OCR disabled, text extracted from DOM metadata ---">>

\* the viewer page has run up to await chrome.storage.local.get('lastCapture')
InitViewer ==
    /\ ProtocolInit
    /\ popupRun = PopupIdle
    /\ zipRun = NULL
    /\ stitchRun = NULL
    /\ sectionRun = NULL
    /\ compressRun = NULL
    /\ \E data \in CaptureDatas, rec \in Recognizers :
         viewerRun = [pc |-> "load", captureData |-> data, recognizer |-> rec,
                      statusText |-> "Loading capture data...", statusError |-> FALSE,
                      errorsShown |-> 0, statusDone |-> FALSE,
                      fullCanvas |-> NULL, sections |-> <<>>, i |-> 0,
                      processedSections |-> <<>>, ocrResult |-> NULL,
                      extractedText |-> <<>>, metaRendered |-> FALSE,
                      sectionsGrid |-> <<>>, lastCaptureRemoved |-> FALSE]

\* if (!captureData) { setStatus('No capture data found...', 0, true); return; }
ViewerNoCaptureData ==
    /\ viewerRun # NULL
    /\ viewerRun.pc = "load"
    /\ viewerRun.captureData = NULL
    /\ viewerRun' = [SetStatus(viewerRun, "No capture data found.", TRUE)
                        EXCEPT !.pc = "returned"]
    /\ UNCHANGED <<protocolVars, popupRun, zipRun, stitchRun, sectionRun, compressRun>>

\* Step 1: fullCanvas = await ImageProcessor.stitch(captures, pageInfo)
ViewerCallStitch ==
    /\ viewerRun # NULL
    /\ viewerRun.pc = "load"
    /\ viewerRun.captureData # NULL
    /\ viewerRun' = [SetStatus(viewerRun, "Stitching viewport captures...", FALSE)
                        EXCEPT !.pc = "stitch"]
    /\ stitchRun' = [pc |-> "called", input |-> viewerRun.captureData.captures,
                     captures |-> viewerRun.captureData.captures,
                     pageInfo |-> viewerRun.captureData.pageInfo, canvas |-> NULL]
    /\ UNCHANGED <<protocolVars, popupRun, zipRun, sectionRun, compressRun>>

\* catch (err) { setStatus(`Stitch error: ...`, 15, true); return; }
ViewerStitchFailed ==
    /\ viewerRun # NULL
    /\ viewerRun.pc = "stitch"
    /\ stitchRun.pc = "threw"
    /\ viewerRun' = [SetStatus(viewerRun, "Stitch error", TRUE) EXCEPT !.pc = "returned"]
    /\ UNCHANGED <<protocolVars, popupRun, zipRun, stitchRun, sectionRun, compressRun>>

\* Step 2, settings.enableSections: ImageProcessor.smartSection(fullCanvas, ...)
ViewerCallSmartSection ==
    /\ viewerRun # NULL
    /\ viewerRun.pc = "stitch"
    /\ stitchRun.pc = "returned"
    /\ viewerRun.captureData.settings.enableSections
    /\ viewerRun' = [SetStatus(viewerRun, "Finding smart section break points...", FALSE)
                        EXCEPT !.fullCanvas = stitchRun.canvas, !.pc = "section"]
    /\ sectionRun' = [pc |-> "called", canvas |-> SectionCanvas(stitchRun.canvas),
                      options |-> [sectionMaxHeight |->
                                      viewerRun.captureData.settings.sectionMaxHeight],
                      sections |-> <<>>, currentY |-> 0, index |-> 0,
                      searches |-> 0, scan |-> NULL]
    /\ UNCHANGED <<protocolVars, popupRun, zipRun, stitchRun, compressRun>>

\* smartSection has returned: setStatus(`Split into n section(s)`, 50)
ViewerSectioned ==
    /\ viewerRun # NULL
    /\ viewerRun.pc = "section"
    /\ sectionRun.pc = "returned"
    /\ viewerRun' = [SetStatus(viewerRun, "Split into section(s)", FALSE)
                        EXCEPT !.sections = sectionRun.sections, !.i = 0,
                               !.pc = "compress"]
    /\ UNCHANGED <<protocolVars, popupRun, zipRun, stitchRun, sectionRun, compressRun>>

\* Step 2, sections disabled: the canvas is the one section
ViewerSingleSection ==
    /\ viewerRun # NULL
    /\ viewerRun.pc = "stitch"
    /\ stitchRun.pc = "returned"
    /\ ~viewerRun.captureData.settings.enableSections
    /\ viewerRun' = [SetStatus(viewerRun, "Stitched", FALSE)
                        EXCEPT !.fullCanvas = stitchRun.canvas,
                               !.sections = <<[canvas |-> [height |-> stitchRun.canvas.height],
                                               startY |-> 0,
                                               endY |-> stitchRun.canvas.height,
                                               index |-> 0]>>,
                               !.i = 0, !.pc = "compress"]
    /\ UNCHANGED <<protocolVars, popupRun, zipRun, stitchRun, sectionRun, compressRun>>

\* Step 3, i < sections.length: await ImageProcessor.compress(sections[i].canvas, ...)
ViewerCallCompress ==
    /\ viewerRun # NULL
    /\ viewerRun.pc = "compress"
    /\ viewerRun.i < Len(viewerRun.sections)
    /\ viewerRun' = [SetStatus(viewerRun, "Compressing section...", FALSE)
                        EXCEPT !.pc = "compressing"]
    /\ compressRun' = [pc |-> "called",
                       options |-> [compressionStrategy |->
                                        viewerRun.captureData.settings.compressionStrategy,
                                    maxFileSizeMB |->
                                        viewerRun.captureData.settings.maxFileSizeMB],
                       loop |-> "webp", q |-> 92, scale |-> 100,
                       attempts |-> <<>>, result |-> NULL]
    /\ UNCHANGED <<protocolVars, popupRun, zipRun, stitchRun, sectionRun>>

\* compress has returned a result: it is pushed to processedSections; i++
ViewerCompressed ==
    /\ viewerRun # NULL
    /\ viewerRun.pc = "compressing"
    /\ compressRun.pc = "returned"
    /\ compressRun.result # NULL
    /\ viewerRun' = [viewerRun EXCEPT
            !.processedSections =
                Append(@, ProcessedSection(viewerRun.sections[viewerRun.i + 1],
                                           compressRun.result)),
            !.i = @ + 1,
            !.pc = "compress"]
    /\ UNCHANGED <<protocolVars, popupRun, zipRun, stitchRun, sectionRun, compressRun>>

\* compress has returned null: result.blob throws a TypeError that nothing
\* catches, the async function ends there
ViewerCompressThrows ==
    /\ viewerRun # NULL
    /\ viewerRun.pc = "compressing"
    /\ compressRun.pc = "returned"
    /\ compressRun.result = NULL
    /\ viewerRun' = [viewerRun EXCEPT !.pc = "threw"]
    /\ UNCHANGED <<protocolVars, popupRun, zipRun, stitchRun, sectionRun, compressRun>>

\* Step 4, after the last section: OCR, or the DOM text
ViewerOCR ==
    /\ viewerRun # NULL
    /\ viewerRun.pc = "compress"
    /\ ~(viewerRun.i < Len(viewerRun.sections))
    /\ LET viewerSettings == viewerRun.captureData.settings
           ocrResult == IF viewerSettings.enableOCR
                        THEN Extract(viewerRun.recognizer, [useTesseract |-> TRUE])
                        ELSE NULL
       IN viewerRun' =
            [(IF viewerSettings.enableOCR
              THEN SetStatus(viewerRun, "Running OCR text extraction...", FALSE)
              ELSE viewerRun)
             EXCEPT !.ocrResult = ocrResult,
                    !.extractedText = ExtractedText(viewerSettings, viewerRun.captureData.pageInfo,
                                                    ocrResult),
                    !.pc = "metadata"]
    /\ UNCHANGED <<protocolVars, popupRun, zipRun, stitchRun, sectionRun, compressRun>>

\* Steps 5 and 6 and Done: the metadata is built and rendered, the sections
\* are rendered, the status is set to done, lastCapture is removed
ViewerFinish ==
    /\ viewerRun # NULL
    /\ viewerRun.pc = "metadata"
    /\ viewerRun' = [SetStatus(viewerRun, "Done", FALSE)
                        EXCEPT !.metaRendered = TRUE,
                               !.sectionsGrid = viewerRun.processedSections,
                               !.statusDone = TRUE,
                               !.lastCaptureRemoved = TRUE,
                               !.pc = "returned"]
    /\ UNCHANGED <<protocolVars, popupRun, zipRun, stitchRun, sectionRun, compressRun>>

NextViewer ==
    \/ ViewerNoCaptureData
    \/ ViewerCallStitch
    \/ ViewerStitchFailed
    \/ ViewerCallSmartSection
    \/ ViewerSectioned
    \/ ViewerSingleSection
    \/ ViewerCallCompress
    \/ ViewerCompressed
    \/ ViewerCompressThrows
    \/ ViewerOCR
    \/ ViewerFinish
    \/ NextStitch
    \/ NextSection
    \/ NextCompress

SpecViewer == InitViewer /\ [][NextViewer]_vars

\* ------------------------------------------------------------ vocabulary
\* the pipeline has run to its end, by return or by an uncaught exception
ViewerEnded == viewerRun.pc \in {"returned", "threw"}

\* every section compressed, sections and metadata rendered, status done
RenderedComplete ==
    /\ viewerRun.statusDone
    /\ ~viewerRun.statusError
    /\ viewerRun.metaRendered
    /\ viewerRun.sectionsGrid # <<>>
    /\ viewerRun.sectionsGrid = viewerRun.processedSections
    /\ Len(viewerRun.processedSections) = Len(viewerRun.sections)

\* one error status, nothing rendered
SingleError ==
    /\ viewerRun.statusError
    /\ viewerRun.errorsShown = 1
    /\ ~viewerRun.statusDone
    /\ ~viewerRun.metaRendered
    /\ viewerRun.sectionsGrid = <<>>

\* C23: a pipeline run ends either with every section compressed, sections
\* and metadata rendered and the status done, or with a single error status
\* and nothing rendered: never with neither, never with both.
C23_CompleteOrSingleError ==
    ViewerEnded => (RenderedComplete /\ ~SingleError) \/ (SingleError /\ ~RenderedComplete)

\* the OCR step has run, with OCR enabled and a recognizer that fails
OCRFailed ==
    /\ viewerRun.pc = "metadata" \/ (viewerRun.pc = "returned" /\ viewerRun.metaRendered)
    /\ viewerRun.captureData.settings.enableOCR
    /\ viewerRun.recognizer \in FailingRecognizers

\* C26: when Tesseract fails to load or to run, extract throws nothing and
\* returns text '' with method 'dom-fallback' and confidence 0; the viewer
\* takes the DOM text as it is, shows no error and goes on to the metadata
\* and render steps.
C26_OCRFailureFallsBack ==
    OCRFailed =>
        /\ viewerRun.ocrResult # NULL
        /\ viewerRun.ocrResult.text = ""
        /\ viewerRun.ocrResult.method = "dom-fallback"
        /\ viewerRun.ocrResult.confidence = 0
        /\ viewerRun.extractedText = BuildDOMText(viewerRun.captureData.pageInfo)
        /\ ~viewerRun.statusError
        /\ viewerRun.pc = "returned" => RenderedComplete

\* C26 witness: a run whose recognizer failed has rendered its sections and
\* a DOM text that is not empty
C26_RenderedAfterOCRFailure ==
    /\ OCRFailed
    /\ viewerRun.pc = "returned"
    /\ viewerRun.statusDone
    /\ viewerRun.sectionsGrid # <<>>
    /\ viewerRun.extractedText # <<>>

\* ------------------------------------------------------------ C31 - C40
\* this step ends the handleCaptureViewport invocation i that was awaiting
\* its snapshot, with a session there and a listener in the tab
AnswersRequest(i) ==
    /\ viewportHandlers[i].pc = "snap"
    /\ viewportHandlers' = RemoveAt(viewportHandlers, i)
    /\ captureState # NULL
    /\ tabOpen /\ injected

Encodings == {"image/png", "image/webp", "image/jpeg", "scaled image/webp",
              "scaled image/jpeg"}
Canvases == [Encodings -> BlobSizes]

\* _tryFormat(canvas, format, quality, maxSize) on such a canvas
TryFormatOf(canvas, format, quality, maxSize) ==
    TryFormat(canvas[format], format, quality, maxSize)

\* for (let q = 0.92; q >= 0.3; q -= 0.1): the first WebP encoding that fits
RECURSIVE WebPLoop(_, _, _)
WebPLoop(canvas, q, maxSize) ==
    LET result == TryFormatOf(canvas, "image/webp", q, maxSize) IN
    IF result # NULL THEN result
    ELSE IF q - 10 >= 30 THEN WebPLoop(canvas, q - 10, maxSize) ELSE NULL

\* for (let q = 0.85; q >= 0.3; q -= 0.1): the first JPEG encoding that fits
RECURSIVE JPEGLoop(_, _, _)
JPEGLoop(canvas, q, maxSize) ==
    LET result == TryFormatOf(canvas, "image/jpeg", q, maxSize) IN
    IF result # NULL THEN result
    ELSE IF q - 10 >= 30 THEN JPEGLoop(canvas, q - 10, maxSize) ELSE NULL

\* while (scale >= 0.25) { for (let q = 0.8; q >= 0.4; q -= 0.15) ... }
RECURSIVE ScaleLoop(_, _, _, _)
ScaleLoop(canvas, scale, q, maxSize) ==
    LET result == TryFormat(canvas["scaled image/webp"], "image/webp", q, maxSize) IN
    IF result # NULL THEN Scaled(result, scale)
    ELSE IF q - 15 >= 40 THEN ScaleLoop(canvas, scale, q - 15, maxSize)
    ELSE IF scale - 10 >= 25 THEN ScaleLoop(canvas, scale - 10, 80, maxSize)
    ELSE NULL

\* compress(canvas, options): what it returns
Compress(canvas, options) ==
    LET maxSize == MaxSize(options) IN
    IF Strategy(options) = "lossless"
    THEN TryFormatOf(canvas, "image/png", 100, maxSize)
    ELSE IF WebPLoop(canvas, 92, maxSize) # NULL THEN WebPLoop(canvas, 92, maxSize)
    ELSE IF JPEGLoop(canvas, 85, maxSize) # NULL THEN JPEGLoop(canvas, 85, maxSize)
    ELSE IF ScaleLoop(canvas, 75, 80, maxSize) # NULL
         THEN ScaleLoop(canvas, 75, 80, maxSize)
    ELSE [blob |-> [size |-> canvas["scaled image/jpeg"]], format |-> "image/jpeg",
          quality |-> 30, scaled |-> TRUE, scaleFactor |-> 50]

\* compress is called with a canvas and options
InitCompressCall ==
    /\ ProtocolInit
    /\ popupRun = PopupIdle
    /\ zipRun = NULL
    /\ stitchRun = NULL
    /\ sectionRun = NULL
    /\ viewerRun = NULL
    /\ \E canvas \in Canvases, st \in CompressionStrategies, mb \in MaxFileSizesMB :
         compressRun = [pc |-> "called", canvas |-> canvas,
                        options |-> [compressionStrategy |-> st, maxFileSizeMB |-> mb],
                        result |-> NULL]

\* the call returns
CompressCall ==
    /\ compressRun # NULL
    /\ compressRun.pc = "called"
    /\ compressRun' = [compressRun EXCEPT
            !.result = Compress(compressRun.canvas, compressRun.options),
            !.pc = "returned"]
    /\ UNCHANGED <<protocolVars, popupRun, zipRun, stitchRun, sectionRun, viewerRun>>

SpecCompressCall == InitCompressCall /\ [][CompressCall]_vars

\* the options with another strategy
WithStrategy(options, st) == [options EXCEPT !.compressionStrategy = st]

\* C32: for every canvas and size target, compress with 'aggressive' returns
\* what it returns with 'auto': the same format, quality, scaled flag and
\* scale factor (and the same blob).
C32_AggressiveIsAuto ==
    (compressRun.pc = "returned"
        /\ compressRun.options.compressionStrategy = "aggressive") =>
        compressRun.result = Compress(compressRun.canvas,
                                      WithStrategy(compressRun.options, "auto"))

\* C32 witness: an 'aggressive' call has returned a scaled-down encoding
C32_AggressiveReturnedScaled ==
    /\ compressRun.pc = "returned"
    /\ compressRun.options.compressionStrategy = "aggressive"
    /\ compressRun.result.scaled
    /\ compressRun.result.format = "image/webp"

\* startTime of the session handleCaptureComplete invocation i read at entry
SessionStartOf(i) ==
    completeHandlers[i].result.timestamp - completeHandlers[i].result.elapsedMs

\* C33: when handleCaptureComplete ends, a session that was created after the
\* one it is completing stays: its finally block does not erase it.
C33_LaterSessionKept ==
    [][\A i \in 1..Len(completeHandlers) :
        (/\ completeHandlers' = RemoveAt(completeHandlers, i)
         /\ captureState # NULL
         /\ captureState.startTime > SessionStartOf(i))
        => captureState' = captureState]_vars

\* C34: a session the driver has begun does not come to rest unfinished: when
\* nothing is running, waiting or on its way any more and no error has been
\* delivered to the driver, the driver has sent capture-complete and the
\* viewer has been opened.
C34_NoSessionStranded ==
    (tabOpen /\ Quiescent /\ restorePending) =>
        scrollIndex >= totalScrolls /\ viewerTabs > 0

\* C35: for an image of height >= 1 every section smartSection emits has
\* positive height, endY > startY, so the cut position advances on each pass
\* of its loop and the loop ends.
C35_SectionsAdvance ==
    (sectionRun # NULL /\ sectionRun.canvas.height >= 1) =>
        \A k \in 1..Len(sectionRun.sections) :
            sectionRun.sections[k].endY > sectionRun.sections[k].startY

\* the listener takes the message at the head of the tab's queue
DeliversToTab(a) ==
    /\ toTab # <<>>
    /\ Head(toTab).action = a
    /\ toTab' = Tail(toTab)
    /\ tabOpen'

\* C36: however many times the content script has been executed in the page,
\* one listener is registered once it has run; a begin-scroll-capture the
\* listener takes starts one settle wait, and a next-scroll it takes advances
\* scrollIndex by one.
C36_InjectionIdempotent ==
    [][/\ (tabOpen' /\ injected') => listeners' = 1
       /\ DeliversToTab("begin-scroll-capture")
            => Len(settleTimers') = Len(settleTimers) + 1
       /\ DeliversToTab("next-scroll") => scrollIndex' = scrollIndex + 1]_vars

\* the script has been executed twice in the open page, one listener is
\* registered and it has taken a next-scroll
C36_ExecutedTwiceOneListener ==
    /\ startsIssued = 2
    /\ startHandlers = <<>>
    /\ tabOpen
    /\ listeners = 1
    /\ scrollIndex >= 1

\* row y of the page lies in the row range of one of the captures
RowCaptured(caps, y) ==
    \E k \in 1..Len(caps) : /\ caps[k].scrollY <= y
                            /\ y < caps[k].scrollY + caps[k].clipHeight

\* the row ranges of the captures leave no row of [0, h) out: a first row
\* left out would be row 0 or the row after the end of a capture
RowsCover(caps, h) ==
    /\ h > 0 => RowCaptured(caps, 0)
    /\ \A k \in 1..Len(caps) :
          caps[k].scrollY + caps[k].clipHeight < h
              => RowCaptured(caps, caps[k].scrollY + caps[k].clipHeight)

\* C37: the captures handleCaptureComplete takes over into the result, and
\* the result it stores, cover every row of [0, pageHeight).
C37_CapturesCoverPage ==
    /\ \A i \in 1..Len(completeHandlers) :
            RowsCover(completeHandlers[i].result.captures, pageHeight)
    /\ lastCapture # NULL => RowsCover(lastCapture.captures, pageHeight)

\* the defaults the README documents under "Settings Storage"
DocumentedDefaults ==
    [format |-> "png", quality |-> 92, maxFileSizeMB |-> 3, enableOCR |-> TRUE,
     enableSections |-> TRUE, sectionMaxHeight |-> 4096,
     compressionStrategy |-> "auto"]

\* a value other than the default for every key
OtherSettings ==
    [format |-> "jpeg", quality |-> 80, maxFileSizeMB |-> 1, enableOCR |-> FALSE,
     enableSections |-> FALSE, sectionMaxHeight |-> 2048,
     compressionStrategy |-> "lossless"]

\* msg.settings of save-settings: the popup's record, and records with any
\* of the keys
SettingsInputs ==
    SavedSettings \cup
    {[k \in K |-> OtherSettings[k]] : K \in SUBSET DOMAIN DEFAULT_SETTINGS}

\* save-settings and get-settings in any order, nothing stored at first
NextSettings ==
    \/ \E s \in SettingsInputs : HandleSaveSettings(s)
    \/ HandleGetSettings

SpecSettings == Init /\ [][NextSettings]_vars

\* C38: get-settings after save-settings of S answers with every key of
\* DEFAULT_SETTINGS, the value of S for the keys S has and the default for the
\* others; with nothing stored it answers with the documented defaults.
C38_SavedOverDefaults ==
    popupRun.got # NULL =>
        IF popupRun.saved = NULL
        THEN popupRun.got = DocumentedDefaults
        ELSE /\ DOMAIN DEFAULT_SETTINGS \subseteq DOMAIN popupRun.got
             /\ \A k \in DOMAIN DEFAULT_SETTINGS :
                    popupRun.got[k] = IF k \in DOMAIN popupRun.saved
                                      THEN popupRun.saved[k]
                                      ELSE DEFAULT_SETTINGS[k]

\* get-settings has answered after a save-settings that lacks a key for which
\* a value other than the default was stored before, and that has another
C38_StoredValueNotKept ==
    /\ popupRun.got # NULL
    /\ popupRun.saved # NULL
    /\ popupRun.before # NULL
    /\ DOMAIN popupRun.saved # {}
    /\ \E k \in DOMAIN DEFAULT_SETTINGS \ DOMAIN popupRun.saved :
            popupRun.before[k] # DEFAULT_SETTINGS[k]

\* the background takes a message of action a while captureState is null
TakenWithoutSession(a) ==
    /\ toBackground # <<>>
    /\ Head(toBackground).action = a
    /\ captureState = NULL
    /\ toBackground' = Tail(toBackground)

\* C39: a capture-viewport or capture-complete taken while captureState is
\* null changes nothing: no captureVisibleTab call, lastCaptureTime and
\* captureState as they were, nothing stored, no viewer tab, no handler left
\* waiting and no message to the tab.
C39_NoSessionNoEffect ==
    [][(TakenWithoutSession("capture-viewport") \/ TakenWithoutSession("capture-complete"))
        => UNCHANGED <<captureState, lastCaptureTime, lastCapture, viewerTabs, snapCalls,
                       viewportHandlers, completeHandlers, storedSettings, toTab>>]_vars

\* a request was dropped: the driver waits for an answer to its last request,
\* nothing is on its way and no session is left in the background
C39_RequestDropped ==
    /\ tabOpen
    /\ Quiescent
    /\ restorePending
    /\ captureState = NULL
    /\ scrollIndex < totalScrolls

\* ------------------------------------------------- ZipBuilder.createZip
\* the most files in one archive
MaxFiles == 3

\* DataView.setUint16 / setUint32 keep the low 16 / 32 bits of the value
Uint16(x) == x % 65536
Uint32(x) == (x % 65536) + 65536 * ((x \div 65536) % 65536)

\* files: the byte length of each file's encoded name and of its data
ZipFiles == [nameLength : {1, 12}, dataLength : {0, 5, 100}]
ZipFileLists == UNION {[1..n -> ZipFiles] : n \in 0..MaxFiles}

\* a local entry without its header
LocalLengthWithoutHeader(file) == file.nameLength + file.dataLength

\* new Uint8Array(30 + nameBytes.length + file.data.length)
LocalLength(file) == 30 + file.nameLength + file.dataLength

\* new Uint8Array(46 + nameBytes.length)
CentralLength(file) == 46 + file.nameLength

\* the local file header's fields of the file
LocalHeader(file) ==
    [length |-> LocalLength(file),
     compressedSize |-> Uint32(file.dataLength),
     nameLength |-> Uint16(file.nameLength)]

\* the central directory entry's fields of the file, with offset as it is now
CentralEntry(file, offset) ==
    [length |-> CentralLength(file),
     compressedSize |-> Uint32(file.dataLength),
     nameLength |-> Uint16(file.nameLength),
     localHeaderOffset |-> Uint32(offset)]

\* centralEntries.reduce((s, e) => s + e.length, 0)
RECURSIVE ReduceLength(_, _)
ReduceLength(entries, k) ==
    IF k > Len(entries) THEN 0 ELSE entries[k].length + ReduceLength(entries, k + 1)

\* createZip(files) is called
InitZip ==
    /\ ProtocolInit
    /\ stitchRun = NULL
    /\ sectionRun = NULL
    /\ compressRun = NULL
    /\ viewerRun = NULL
    /\ popupRun = PopupIdle
    /\ \E files \in ZipFileLists :
         zipRun = [pc |-> "loop", files |-> files, next |-> 1, localHeaders |-> <<>>,
                   centralEntries |-> <<>>, offset |-> 0, eocd |-> NULL, totalSize |-> 0,
                   positions |-> <<>>]

\* one pass of for (const file of files)
ZipAddFile ==
    /\ zipRun # NULL
    /\ zipRun.pc = "loop"
    /\ zipRun.next <= Len(zipRun.files)
    /\ LET file == zipRun.files[zipRun.next] IN
         zipRun' = [zipRun EXCEPT
                      !.localHeaders = Append(@, LocalHeader(file)),
                      !.centralEntries = Append(@, CentralEntry(file, zipRun.offset)),
                      !.offset = @ + LocalLength(file),
                      !.next = @ + 1]
    /\ UNCHANGED <<protocolVars, stitchRun, sectionRun, compressRun, viewerRun, popupRun>>

\* where result.set puts the parts: the local entries, the central entries
\* and the end record, one after the other
RECURSIVE PositionsFrom(_, _, _)
PositionsFrom(parts, k, pos) ==
    IF k > Len(parts) THEN <<pos>>
    ELSE <<pos>> \o PositionsFrom(parts, k + 1, pos + parts[k].length)

\* after the loop: the end of central directory record and the result
ZipFinish ==
    /\ zipRun # NULL
    /\ zipRun.pc = "loop"
    /\ zipRun.next > Len(zipRun.files)
    /\ LET centralDirOffset == zipRun.offset
           centralDirSize == ReduceLength(zipRun.centralEntries, 1)
       IN zipRun' = [zipRun EXCEPT
                      !.pc = "done",
                      !.eocd = [entriesOnDisk |-> Uint16(Len(zipRun.files)),
                                totalEntries |-> Uint16(Len(zipRun.files)),
                                centralDirSize |-> Uint32(centralDirSize),
                                centralDirOffset |-> Uint32(centralDirOffset)],
                      !.totalSize = zipRun.offset + centralDirSize + 22,
                      !.positions = PositionsFrom(zipRun.localHeaders \o zipRun.centralEntries,
                                                  1, 0)]
    /\ UNCHANGED <<protocolVars, stitchRun, sectionRun, compressRun, viewerRun, popupRun>>

NextZip == ZipAddFile \/ ZipFinish

SpecZip == InitZip /\ [][NextZip]_vars

\* the bytes of the local entries of the first n files
RECURSIVE LocalBytes(_, _)
LocalBytes(files, n) ==
    IF n = 0 THEN 0
    ELSE LocalBytes(files, n - 1) + 30 + files[n].nameLength + files[n].dataLength

\* the bytes of the central directory entries of the first n files
RECURSIVE CentralBytes(_, _)
CentralBytes(files, n) ==
    IF n = 0 THEN 0 ELSE CentralBytes(files, n - 1) + 46 + files[n].nameLength

\* C40: in the finished archive the k-th central directory entry records the
\* bytes of the local entries before it as its local-header offset, the end
\* record gives the bytes of all local entries as the central directory's
\* offset and the number of files as the entry count, and the archive's size
\* is the local bytes plus the central directory's bytes plus 22.
C40_ZipOffsets ==
    (zipRun # NULL /\ zipRun.pc = "done") =>
        LET files == zipRun.files
            n == Len(zipRun.files)
        IN /\ Len(zipRun.centralEntries) = n
           /\ \A k \in 1..n :
                 zipRun.centralEntries[k].localHeaderOffset = LocalBytes(files, k - 1)
           /\ zipRun.eocd.centralDirOffset = LocalBytes(files, n)
           /\ zipRun.eocd.totalEntries = n
           /\ zipRun.eocd.entriesOnDisk = n
           /\ zipRun.totalSize = LocalBytes(files, n) + CentralBytes(files, n) + 22
           /\ zipRun.positions[n + 1] = zipRun.eocd.centralDirOffset
           /\ zipRun.positions[2 * n + 1] + 22 = zipRun.totalSize

\* an archive of MaxFiles files with names and data of different lengths
C40_ArchiveOfSeveralFiles ==
    /\ zipRun # NULL
    /\ zipRun.pc = "done"
    /\ Len(zipRun.files) = MaxFiles
    /\ zipRun.files[1].dataLength > 0
    /\ zipRun.files[1].nameLength # zipRun.files[2].nameLength
    /\ zipRun.centralEntries[MaxFiles].localHeaderOffset > 0

====
